---- MODULE Spec2Model ----
(***************************************************************************)
(* Calendar audit: the ingestion pipeline (audit/parser.py) and the        *)
(* metrics engine (audit/metrics.py).                                      *)
(*                                                                         *)
(* Conventions of the model                                                *)
(*  - A text is a sequence of atoms.  An atom is a one-character string,   *)
(*    or (for CSV column names only) an indivisible word.  Whitespace is   *)
(*    the atom " ".                                                        *)
(*  - A cell of a table is a record; its kind tells what it holds.         *)
(*  - A naive timestamp is an integer number of seconds since              *)
(*    1970-01-01 00:00:00.                                                 *)
(*  - duration_minutes is a float in the code; the model keeps the exact   *)
(*    rational d/60 and stores its numerator d (SecPerMin = 60), so a      *)
(*    stored 90 is 1.5 minutes.                                            *)
(*  - The canonical fields attendees and location are written by the       *)
(*    normalizers and read by nothing in parser.py or metrics.py; they are *)
(*    left out of the rows.                                                *)
(***************************************************************************)
EXTENDS Integers, Sequences, FiniteSets, TLC

VARIABLES
    pc,               \* position of the run
    file_content,     \* parse_calendar_file: the bytes (see FileContents)
    filename,         \* parse_calendar_file: the file name, a text
    source_override,  \* parse_calendar_file: "outlook" | "google" | "none"
    icalendar_installed, \* whether `from icalendar import Calendar` succeeds
    df,               \* parse_calendar_file: the local table df
    source,           \* parse_calendar_file: the local source tag
    warnings,         \* parse_calendar_file: the local warnings list
    filter_cfg,       \* apply_filters: [exclude_all_day, min_duration, exclude_keywords]
    filtered,         \* what apply_filters(df, ...) returned
    refiltered,       \* what apply_filters(filtered, ...) returned
    metrics           \* what the called function of metrics.py returned

vars == <<pc, file_content, filename, source_override, icalendar_installed,
          df, source, warnings, filter_cfg, filtered, refiltered, metrics>>

parseInputs == <<file_content, filename, source_override, icalendar_installed>>

filterVars == <<filter_cfg, filtered, refiltered, metrics>>

\* a missing cell of a table (NaN / None)
NaN == [kind |-> "NaN"]

\* a missing timestamp (None / NaT); every timestamp is >= 0
NaT == -1

\* a string cell holding the text t
Str(t) == [kind |-> "str", s |-> t]

\* the empty string ''
EmptyStr == [kind |-> "empty"]

SecPerMin == 60

SecPerDay == 86400

----------------------------------------------------------------------------
(* Texts *)

\* a run of 490 spaces, written as one atom
Spaces490 == "<490 spaces>"

IsSpace(a) == a \in {" ", "\t", "\n", Spaces490}

RECURSIVE LStrip(_)
LStrip(t) == IF t # <<>> /\ IsSpace(Head(t)) THEN LStrip(Tail(t)) ELSE t

RECURSIVE RStrip(_)
RStrip(t) ==
    IF t # <<>> /\ IsSpace(t[Len(t)]) THEN RStrip(SubSeq(t, 1, Len(t) - 1)) ELSE t

\* str.strip()
Strip(t) == RStrip(LStrip(t))

UpperLetters ==
    <<"A", "B", "C", "D", "E", "F", "G", "H", "I", "J", "K", "L", "M",
      "N", "O", "P", "Q", "R", "S", "T", "U", "V", "W", "X", "Y", "Z">>

LowerLetters ==
    <<"a", "b", "c", "d", "e", "f", "g", "h", "i", "j", "k", "l", "m",
      "n", "o", "p", "q", "r", "s", "t", "u", "v", "w", "x", "y", "z">>

\* lower case of one atom: a letter, or the extension atom of a file name
LowerAtom(a) ==
    IF \E i \in 1..Len(UpperLetters) : UpperLetters[i] = a
    THEN LowerLetters[CHOOSE i \in 1..Len(UpperLetters) : UpperLetters[i] = a]
    ELSE CASE a = ".ICS" -> ".ics" [] a = ".Ics" -> ".ics"
           [] a = ".CSV" -> ".csv" [] a = ".Csv" -> ".csv"
           [] OTHER -> a

\* str.lower()
Lower(t) == [i \in 1..Len(t) |-> LowerAtom(t[i])]

\* str.endswith(suffix) / str.startswith(prefix)
EndsWith(t, suffix) ==
    /\ Len(suffix) <= Len(t)
    /\ SubSeq(t, Len(t) - Len(suffix) + 1, Len(t)) = suffix

StartsWith(t, prefix) ==
    /\ Len(prefix) <= Len(t)
    /\ SubSeq(t, 1, Len(prefix)) = prefix

----------------------------------------------------------------------------
(* Dates and times.                                                        *)
(* A date cell of a CSV is NaN, or a text cell read by the parser as       *)
(*   [kind |-> "date", sep, a, b, c, la, lc] : the string "a sep b sep c"  *)
(*        whose first field has la digits and third field lc digits,       *)
(*   [kind |-> "blank"]   : whitespace only,                               *)
(*   [kind |-> "junk"]    : any other text.                                *)
(* A time cell is NaN, or                                                  *)
(*   [kind |-> "time", h, m, s, ampm] : "h:m[:s][ AM|PM]"; s = -1 when     *)
(*        there is no seconds field, ampm = "" when there is no suffix,    *)
(*   [kind |-> "blank"], [kind |-> "junk"].                                *)

IsLeap(y) == (y % 4 = 0 /\ y % 100 # 0) \/ y % 400 = 0

DaysInMonth(y, m) ==
    CASE m \in {1, 3, 5, 7, 8, 10, 12} -> 31
      [] m \in {4, 6, 9, 11} -> 30
      [] OTHER -> IF IsLeap(y) THEN 29 ELSE 28

\* days from 1970-01-01 to y-m-d (proleptic Gregorian, y >= 1970)
\* leap years in 1..y
LeapYearsUpTo(y) == (y \div 4) - (y \div 100) + (y \div 400)

DaysBeforeYear(y) ==
    IF y <= 1970 THEN 0
    ELSE 365 * (y - 1970) + LeapYearsUpTo(y - 1) - LeapYearsUpTo(1969)

RECURSIVE DaysBeforeMonth(_, _)
DaysBeforeMonth(y, m) ==
    IF m <= 1 THEN 0 ELSE DaysBeforeMonth(y, m - 1) + DaysInMonth(y, m - 1)

\* datetime(y, mo, d, H, M, S) as seconds since the epoch
MkDatetime(y, mo, d, H, M, S) ==
    (DaysBeforeYear(y) + DaysBeforeMonth(y, mo) + d - 1) * SecPerDay
        + H * 3600 + M * 60 + S

ValidDate(y, mo, d) == mo \in 1..12 /\ d >= 1 /\ d <= DaysInMonth(y, mo)

\* %y: 69..99 -> 19xx, 00..68 -> 20xx
TwoDigitYear(c) == IF c >= 69 THEN 1900 + c ELSE 2000 + c

\* mutant: DD/MM/YYYY tried before MM/DD/YYYY
date_formats_day_first ==
    <<"%d/%m/%Y", "%Y-%m-%d", "%m/%d/%Y", "%m-%d-%Y", "%m/%d/%y", "%d/%m/%y", "%Y/%m/%d">>

date_formats ==
    <<"%m/%d/%Y", "%Y-%m-%d", "%d/%m/%Y", "%m-%d-%Y", "%m/%d/%y", "%d/%m/%y", "%Y/%m/%d">>

time_formats == <<"%I:%M:%S %p", "%I:%M %p", "%H:%M:%S", "%H:%M", "">>

\* strptime of the date part: <<y, mo, d>>, or <<>> when the format does not
\* match the whole date string (ValueError)
StrptimeDate(c, fmt) ==
    LET ymd(y, mo, d) == IF ValidDate(y, mo, d) THEN <<y, mo, d>> ELSE <<>>
    IN  IF c.kind # "date" THEN <<>>
        ELSE CASE fmt = "%m/%d/%Y" ->
                    IF c.sep = "/" /\ c.la <= 2 /\ c.lc = 4 THEN ymd(c.c, c.a, c.b) ELSE <<>>
               [] fmt = "%Y-%m-%d" ->
                    IF c.sep = "-" /\ c.la = 4 /\ c.lc <= 2 THEN ymd(c.a, c.b, c.c) ELSE <<>>
               [] fmt = "%d/%m/%Y" ->
                    IF c.sep = "/" /\ c.la <= 2 /\ c.lc = 4 THEN ymd(c.c, c.b, c.a) ELSE <<>>
               [] fmt = "%m-%d-%Y" ->
                    IF c.sep = "-" /\ c.la <= 2 /\ c.lc = 4 THEN ymd(c.c, c.a, c.b) ELSE <<>>
               [] fmt = "%m/%d/%y" ->
                    IF c.sep = "/" /\ c.la <= 2 /\ c.lc = 2
                    THEN ymd(TwoDigitYear(c.c), c.a, c.b) ELSE <<>>
               [] fmt = "%d/%m/%y" ->
                    IF c.sep = "/" /\ c.la <= 2 /\ c.lc = 2
                    THEN ymd(TwoDigitYear(c.c), c.b, c.a) ELSE <<>>
               [] fmt = "%Y/%m/%d" ->
                    IF c.sep = "/" /\ c.la = 4 /\ c.lc <= 2 THEN ymd(c.a, c.b, c.c) ELSE <<>>
               [] OTHER -> <<>>

\* strptime of the time part: <<H, M, S>> or <<>>
StrptimeTime(t, fmt) ==
    LET hour12 == IF t.ampm = "PM" THEN (t.h % 12) + 12 ELSE t.h % 12
        minsec == t.m \in 0..59 /\ t.s \in -1..59
    IN  IF t.kind # "time" \/ ~minsec THEN <<>>
        ELSE CASE fmt = "%I:%M:%S %p" ->
                    IF t.ampm # "" /\ t.s >= 0 /\ t.h \in 1..12
                    THEN <<hour12, t.m, t.s>> ELSE <<>>
               [] fmt = "%I:%M %p" ->
                    IF t.ampm # "" /\ t.s < 0 /\ t.h \in 1..12
                    THEN <<hour12, t.m, 0>> ELSE <<>>
               [] fmt = "%H:%M:%S" ->
                    IF t.ampm = "" /\ t.s >= 0 /\ t.h \in 0..23
                    THEN <<t.h, t.m, t.s>> ELSE <<>>
               [] fmt = "%H:%M" ->
                    IF t.ampm = "" /\ t.s < 0 /\ t.h \in 0..23
                    THEN <<t.h, t.m, 0>> ELSE <<>>
               [] OTHER -> <<>>

\* one pass of the loop body: datetime.strptime(full_str, full_fmt), NaT for
\* ValueError.  time_c is EmptyStr (falsy) or a non-blank time cell.
TryFormat(date_c, time_c, date_fmt, time_fmt) ==
    LET d == StrptimeDate(date_c, date_fmt)
    IN  IF time_c # EmptyStr /\ time_fmt # ""
        THEN LET t == StrptimeTime(time_c, time_fmt)
             IN  IF d = <<>> \/ t = <<>> THEN NaT
                 ELSE MkDatetime(d[1], d[2], d[3], t[1], t[2], t[3])
        ELSE IF d = <<>> THEN NaT ELSE MkDatetime(d[1], d[2], d[3], 0, 0, 0)

\* the nested loops, date format outermost, from position (i, j) on
RECURSIVE FirstMatch(_, _, _, _)
FirstMatch(date_c, time_c, i, j) ==
    IF i > Len(date_formats) THEN NaT
    ELSE IF j > Len(time_formats) THEN FirstMatch(date_c, time_c, i + 1, 1)
    ELSE LET r == TryFormat(date_c, time_c, date_formats[i], time_formats[j])
         IN  IF r # NaT THEN r ELSE FirstMatch(date_c, time_c, i, j + 1)

\* date_str, time_str: cells (NaN, EmptyStr when the column is absent, or a
\* date / time / blank / junk text)
parse_datetime_str(date_str, time_str) ==
    IF date_str.kind \in {"NaN", "empty", "blank"} THEN NaT
    ELSE LET time_c == IF time_str.kind \in {"NaN", "empty", "blank"}
                       THEN EmptyStr ELSE time_str
         IN  FirstMatch(date_str, time_c, 1, 1)

----------------------------------------------------------------------------
(* Tables.  A table (DataFrame) is [columns, rows]: the column names and   *)
(* the rows, each row a record.  Its index is implicit: rows keep their    *)
(* order.                                                                  *)

\* pd.DataFrame()
EmptyFrame == [columns |-> <<>>, rows |-> <<>>]

\* df.empty: no rows or no columns
IsEmpty(t) == Len(t.rows) = 0 \/ Len(t.columns) = 0

InSeq(x, s) == \E i \in 1..Len(s) : s[i] = x

----------------------------------------------------------------------------
(* Column names.  A name is a text of word atoms, possibly padded with     *)
(* whitespace atoms, as read from the CSV header line.                     *)

Col(w) == <<w>>

OUTLOOK_COLUMNS ==
    [subject    |-> <<Col("Subject")>>,
     start_date |-> <<Col("Start Date")>>,
     start_time |-> <<Col("Start Time")>>,
     end_date   |-> <<Col("End Date")>>,
     end_time   |-> <<Col("End Time")>>,
     all_day    |-> <<Col("All day event"), Col("All Day Event")>>,
     organizer  |-> <<Col("Organizer"), Col("Meeting Organizer")>>]

GOOGLE_COLUMNS ==
    [subject    |-> <<Col("Subject"), Col("Title")>>,
     start_date |-> <<Col("Start Date")>>,
     start_time |-> <<Col("Start Time")>>,
     end_date   |-> <<Col("End Date")>>,
     end_time   |-> <<Col("End Time")>>,
     all_day    |-> <<Col("All Day Event"), Col("All day event")>>]

OUTLOOK_SIGNATURE == <<Col("Organizer"), Col("Required Attendees"), Col("Meeting Organizer")>>

GOOGLE_SIGNATURE == <<Col("Description"), Col("Private")>>

\* mutant: the column names as read, not stripped
ColumnsAsRead(columns) == columns

\* df.columns.str.strip()
StripColumns(columns) == [i \in 1..Len(columns) |-> Strip(columns[i])]

\* sum(1 for col in signature if col in columns)
SignatureMatches(signature, columns) ==
    Cardinality({i \in 1..Len(signature) : InSeq(signature[i], columns)})

\* mutant: on a tie 'Subject' alone is enough
detect_csv_source_subject_only(columns) ==
    LET cols == StripColumns(columns)
        outlook_matches == SignatureMatches(OUTLOOK_SIGNATURE, cols)
        google_matches == SignatureMatches(GOOGLE_SIGNATURE, cols)
    IN  IF outlook_matches > google_matches THEN "outlook"
        ELSE IF google_matches > outlook_matches THEN "google"
        ELSE IF InSeq(Col("Subject"), cols) THEN "google"
        ELSE "unknown"

detect_csv_source(columns) ==
    LET cols == StripColumns(columns)
        outlook_matches == SignatureMatches(OUTLOOK_SIGNATURE, cols)
        google_matches == SignatureMatches(GOOGLE_SIGNATURE, cols)
    IN  IF outlook_matches > google_matches THEN "outlook"
        ELSE IF google_matches > outlook_matches THEN "google"
        ELSE IF InSeq(Col("Subject"), cols) /\ InSeq(Col("Start Date"), cols) THEN "google"
        ELSE "unknown"

\* the first of possible_names that is a (stripped) column, or <<>> for None
RECURSIVE find_column(_, _)
find_column(columns, possible_names) ==
    IF possible_names = <<>> THEN <<>>
    ELSE IF InSeq(Head(possible_names), StripColumns(columns)) THEN Head(possible_names)
    ELSE find_column(columns, Tail(possible_names))

----------------------------------------------------------------------------
(* Normalizers.  A raw CSV row carries one cell per semantic field         *)
(* (subject, start_date, start_time, end_date, end_time, all_day,          *)
(* organizer); the header says under which spelling, if any, the column    *)
(* is present.  A normalized row is                                        *)
(*   [subject, start_datetime, end_datetime, is_all_day, organizer,        *)
(*    end_aware]                                                           *)
(* where end_aware tells that end_datetime kept a timezone (ICS only).     *)

NormalizedColumns == <<"subject", "start_datetime", "end_datetime", "is_all_day", "organizer">>

\* the placeholder '(No Subject)'
NoSubject == Str(<<"(", "N", "o", " ", "S", "u", "b", "j", "e", "c", "t", ")">>)

\* Series.fillna(value)
Fillna(cell, value) == IF cell.kind = "NaN" THEN value ELSE cell

TruthyTexts == {<<"t", "r", "u", "e">>, <<"y", "e", "s">>, <<"1">>, <<"o", "n">>}

parse_bool(value) ==
    IF value.kind = "NaN" THEN FALSE
    ELSE Strip(Lower(value.s)) \in TruthyTexts

\* normalized['subject'] = df[subject_col].fillna('(No Subject)') if subject_col
\* else '(No Subject)'.  With no subject column the scalar is assigned to a
\* frame that has no index yet, so the column is created with zero rows; the
\* next assignment (the list start_times) creates the index and pandas
\* reindexes the existing column with NaN.
SubjectColumn(subject_col, row) ==
    IF subject_col # <<>> THEN Fillna(row.subject, NoSubject) ELSE NaN

\* the text of an organizer cell after fillna('')
OrganizerText(cell) == IF cell.kind = "str" THEN cell.s ELSE <<>>

NormalizeRow(columns, names, row, with_organizer) ==
    LET subject_col == find_column(columns, names.subject)
        start_date_col == find_column(columns, names.start_date)
        start_time_col == find_column(columns, names.start_time)
        end_date_col == find_column(columns, names.end_date)
        end_time_col == find_column(columns, names.end_time)
        all_day_col == find_column(columns, names.all_day)
        organizer_col == IF with_organizer THEN find_column(columns, names.organizer) ELSE <<>>
    IN  [subject |-> SubjectColumn(subject_col, row),
         start_datetime |->
             parse_datetime_str(IF start_date_col # <<>> THEN row.start_date ELSE EmptyStr,
                                IF start_time_col # <<>> THEN row.start_time ELSE EmptyStr),
         end_datetime |->
             parse_datetime_str(IF end_date_col # <<>> THEN row.end_date ELSE EmptyStr,
                                IF end_time_col # <<>> THEN row.end_time ELSE EmptyStr),
         is_all_day |-> IF all_day_col # <<>> THEN parse_bool(row.all_day) ELSE FALSE,
         organizer |-> IF organizer_col # <<>> THEN OrganizerText(row.organizer) ELSE <<>>,
         end_aware |-> FALSE]

normalize_outlook(t) ==
    [columns |-> NormalizedColumns,
     rows |-> [i \in 1..Len(t.rows) |-> NormalizeRow(t.columns, OUTLOOK_COLUMNS, t.rows[i], TRUE)]]

normalize_google_csv(t) ==
    [columns |-> NormalizedColumns,
     rows |-> [i \in 1..Len(t.rows) |-> NormalizeRow(t.columns, GOOGLE_COLUMNS, t.rows[i], FALSE)]]

----------------------------------------------------------------------------
(* ICS.  A VEVENT is [summary, dtstart, dtend, duration, organizer]:       *)
(*   summary, organizer : NaN (property absent), EmptyStr or Str(text);    *)
(*   dtstart, dtend : [kind |-> "absent"], [kind |-> "date", ts] or        *)
(*                    [kind |-> "datetime", ts, aware];                    *)
(*   duration : [kind |-> "absent"] or [kind |-> "timedelta", secs].       *)

Absent == [kind |-> "absent"]

\* str(x).replace('mailto:', '')
RemoveMailto(t) == SelectSeq(t, LAMBDA a : a # "mailto:")

\* start_val + duration.dt: a date ignores the part of a timedelta below one day
AddDuration(start, secs) ==
    IF start.kind = "date"
    THEN [start EXCEPT !.ts = @ + ((secs \div SecPerDay) * SecPerDay)]
    ELSE [start EXCEPT !.ts = @ + secs]

\* <<row>>, or <<>> when the component is skipped (returns None)
extract_ics_event(component) ==
    LET subject == IF component.summary.kind = "str" /\ component.summary.s # <<>>
                   THEN component.summary ELSE NoSubject
        start_val == component.dtstart
        end_val == IF component.dtend.kind # "absent" THEN component.dtend
                   ELSE IF component.duration.kind # "absent"
                        THEN AddDuration(start_val, component.duration.secs)
                        ELSE start_val
        is_all_day == start_val.kind = "date"
        organizer_str == IF component.organizer.kind = "str"
                         THEN RemoveMailto(component.organizer.s) ELSE <<>>
    IN  IF start_val.kind = "absent" THEN <<>>
        \* date.replace(tzinfo=None) raises TypeError, caught: return None
        ELSE IF ~is_all_day /\ end_val.kind = "date" THEN <<>>
        ELSE <<[subject |-> subject,
                start_datetime |-> start_val.ts,
                end_datetime |-> end_val.ts,
                is_all_day |-> is_all_day,
                organizer |-> organizer_str,
                \* an all-day start leaves a datetime end as it is, timezone included
                end_aware |-> is_all_day /\ end_val.kind = "datetime" /\ end_val.aware]>>

RECURSIVE ExtractEvents(_)
ExtractEvents(components) ==
    IF components = <<>> THEN <<>>
    ELSE extract_ics_event(Head(components)) \o ExtractEvents(Tail(components))

W(kind) == [kind |-> kind]

WCount(kind, n) == [kind |-> kind, n |-> n]

\* for encoding in ['utf-8', 'latin-1', 'cp1252']: the first that decodes, or
\* "none".  latin-1 decodes every byte string.
Encodings == <<"utf-8", "latin-1", "cp1252">>

Decodes(content, encoding) ==
    CASE encoding = "utf-8" -> content.utf8
      [] encoding = "latin-1" -> TRUE
      [] OTHER -> content.utf8

RECURSIVE FirstEncoding(_, _)
FirstEncoding(content, i) ==
    IF i > Len(Encodings) THEN "none"
    ELSE IF Decodes(content, Encodings[i]) THEN Encodings[i]
    ELSE FirstEncoding(content, i + 1)

\* mutant: no warning when no event is found
parse_ics_file_silent(content, installed) ==
    IF ~installed THEN <<EmptyFrame, <<W("icalendar not installed")>>>>
    ELSE IF content.kind # "ics" THEN <<EmptyFrame, <<W("Error parsing ICS file")>>>>
    ELSE LET events == ExtractEvents(content.events)
         IN  IF events = <<>> THEN <<EmptyFrame, <<>>>>
             ELSE <<[columns |-> NormalizedColumns, rows |-> events], <<>>>>

\* <<table, warnings>>
parse_ics_file(content, installed) ==
    IF ~installed THEN <<EmptyFrame, <<W("icalendar not installed")>>>>
    ELSE IF FirstEncoding(content, 1) = "none"
    THEN <<EmptyFrame, <<W("Could not decode ICS file")>>>>
    \* Calendar.from_ical raises on anything that is not one VCALENDAR
    ELSE IF content.kind # "ics" THEN <<EmptyFrame, <<W("Error parsing ICS file")>>>>
    ELSE LET events == ExtractEvents(content.events)
         IN  IF events = <<>> THEN <<EmptyFrame, <<W("No events found in ICS file")>>>>
             ELSE <<[columns |-> NormalizedColumns, rows |-> events], <<>>>>

----------------------------------------------------------------------------
(* Derived fields *)

DerivedColumns == <<"duration_minutes", "weekday", "weekday_num", "date">>

WeekdayNames == <<"Monday", "Tuesday", "Wednesday", "Thursday", "Friday", "Saturday", "Sunday">>

\* datetime.weekday(): Monday = 0; 1970-01-01 was a Thursday
Weekday(ts) == ((ts \div SecPerDay) + 3) % 7

\* mutant: a negative duration clamped to zero
DurationMinutesClamped(row) ==
    IF row.start_datetime # NaT /\ row.end_datetime # NaT /\ row.end_datetime > row.start_datetime
    THEN row.end_datetime - row.start_datetime ELSE 0

\* (end - start).total_seconds() / 60, as the numerator over SecPerMin
DurationMinutes(row) ==
    IF row.start_datetime # NaT /\ row.end_datetime # NaT
    THEN row.end_datetime - row.start_datetime ELSE 0

DeriveRow(row) ==
    [subject |-> row.subject,
     start_datetime |-> row.start_datetime,
     end_datetime |-> row.end_datetime,
     is_all_day |-> row.is_all_day,
     organizer |-> row.organizer,
     end_aware |-> row.end_aware,
     duration_minutes |-> DurationMinutes(row),
     weekday |-> IF row.start_datetime # NaT
                 THEN WeekdayNames[Weekday(row.start_datetime) + 1] ELSE "Unknown",
     weekday_num |-> IF row.start_datetime # NaT THEN Weekday(row.start_datetime) ELSE 7,
     date |-> IF row.start_datetime # NaT THEN row.start_datetime \div SecPerDay ELSE NaT]

\* what makes calculate_derived_fields raise:
\*  - no rows: df.apply(..., axis=1) of a frame without rows returns a copy of
\*    the frame, and assigning a frame of several columns to the one column
\*    'duration_minutes' raises ValueError;
\*  - subtracting a naive start from a timezone-aware end raises TypeError.
DerivedFieldsRaise(t) ==
    \/ Len(t.rows) = 0
    \/ \E i \in 1..Len(t.rows) : t.rows[i].end_aware

calculate_derived_fields(t) ==
    [columns |-> t.columns \o DerivedColumns,
     rows |-> [i \in 1..Len(t.rows) |-> DeriveRow(t.rows[i])]]

----------------------------------------------------------------------------
(* parse_calendar_file.  The bytes of a file are                           *)
(*   [kind |-> "empty", utf8]                 no bytes at all,             *)
(*   [kind |-> "csv", utf8, header, rows]     a CSV text,                  *)
(*   [kind |-> "ics", utf8, events]           one well-formed VCALENDAR,   *)
(*   [kind |-> "ics_broken", utf8]            BEGIN:VCALENDAR, then text   *)
(*                                            from_ical rejects;           *)
(* utf8 tells whether the bytes are valid UTF-8.                           *)

\* A byte buffer can also be given piece by piece, [kind |-> "bytes", bytes]:
\* a piece is one byte, but for "BEGIN:VCALENDAR" (15 bytes) and Spaces490
\* (490 bytes); "0xFF" is a byte that is no UTF-8.
ByteLen(piece) ==
    CASE piece = "BEGIN:VCALENDAR" -> 15
      [] piece = Spaces490 -> 490
      [] OTHER -> 1

\* what is left of a piece that the slice cuts
CutPiece(piece) == IF piece = Spaces490 THEN " " ELSE "BEGIN:VCAL"

\* the slice file_content[:n]
RECURSIVE TakeBytes(_, _)
TakeBytes(pieces, n) ==
    IF pieces = <<>> \/ n = 0 THEN <<>>
    ELSE IF ByteLen(Head(pieces)) <= n
    THEN <<Head(pieces)>> \o TakeBytes(Tail(pieces), n - ByteLen(Head(pieces)))
    ELSE <<CutPiece(Head(pieces))>>

\* decode('utf-8', errors='ignore')
DecodeIgnore(pieces) == SelectSeq(pieces, LAMBDA b : b # "0xFF")

\* the number of bytes detect_file_type looks at
ContentWindow == 500

\* mutant: the content is looked at before the extension
ExtensionLast(content, name) ==
    IF content.kind = "bytes"
       /\ StartsWith(Strip(DecodeIgnore(TakeBytes(content.bytes, ContentWindow))),
                     <<"BEGIN:VCALENDAR">>)
    THEN "ics"
    ELSE IF EndsWith(Lower(name), <<".ics">>) THEN "ics" ELSE "csv"

\* file_content[:500].decode('utf-8', errors='ignore').strip()
ContentStart(content) ==
    CASE content.kind = "empty" -> <<>>
      [] content.kind = "bytes" ->
            Strip(DecodeIgnore(TakeBytes(content.bytes, ContentWindow)))
      [] content.kind = "csv" ->
            IF content.header = <<>> THEN <<>> ELSE Strip(content.header[1])
      [] OTHER -> <<"BEGIN:VCALENDAR">>

detect_file_type(content, name) ==
    LET filename_lower == Lower(name)
    IN  IF EndsWith(filename_lower, <<".ics">>) THEN "ics"
        ELSE IF EndsWith(filename_lower, <<".csv">>) THEN "csv"
        ELSE IF StartsWith(ContentStart(content), <<"BEGIN:VCALENDAR">>) THEN "ics"
        ELSE "csv"

\* a raw row none of whose cells holds anything
BlankRow ==
    [subject |-> NaN, start_date |-> NaN, start_time |-> NaN, end_date |-> NaN,
     end_time |-> NaN, all_day |-> NaN, organizer |-> NaN]

\* pd.read_csv(StringIO(content)): <<table>>, or <<>> when it raises
\* (EmptyDataError: no columns to parse from file).  Calendar text read as
\* CSV is one column named by its first line and one row per later line.
read_csv(content) ==
    CASE content.kind = "empty" -> <<>>
      [] content.kind = "csv" ->
            IF content.header = <<>> THEN <<>>
            ELSE <<[columns |-> content.header, rows |-> content.rows]>>
      [] content.kind = "ics" ->
            <<[columns |-> <<Col("BEGIN:VCALENDAR")>>,
               rows |-> [i \in 1..(1 + 2 * Len(content.events)) |-> BlankRow]]>>
      [] OTHER -> <<[columns |-> <<Col("BEGIN:VCALENDAR")>>, rows |-> <<BlankRow>>]>>

\* the ICS branch of parse_calendar_file (lines 399-407)
ParseIcsFile ==
    /\ pc = "start"
    /\ detect_file_type(file_content, filename) = "ics"
    /\ LET r == parse_ics_file(file_content, icalendar_installed)
       IN  /\ warnings' = warnings \o r[2]
           /\ source' = "ics"
           /\ IF IsEmpty(r[1])
              THEN df' = EmptyFrame /\ pc' = "done"
              ELSE df' = r[1] /\ pc' = "normalized"
    /\ UNCHANGED <<parseInputs, filterVars>>

\* the CSV branch up to the stripped header (lines 410-430)
ReadCsv ==
    /\ pc = "start"
    /\ detect_file_type(file_content, filename) = "csv"
    /\ IF FirstEncoding(file_content, 1) = "none"
       THEN /\ warnings' = Append(warnings, W("Could not decode CSV file"))
            /\ df' = EmptyFrame /\ source' = "unknown" /\ pc' = "done"
       ELSE LET r == read_csv(file_content)
            IN  IF r = <<>>
                THEN /\ warnings' = Append(warnings, W("Error reading CSV"))
                     /\ df' = EmptyFrame /\ source' = "unknown" /\ pc' = "done"
                ELSE IF IsEmpty(r[1])
                THEN /\ warnings' = Append(warnings, W("CSV file is empty"))
                     /\ df' = EmptyFrame /\ source' = "unknown" /\ pc' = "done"
                ELSE /\ df' = [r[1] EXCEPT !.columns = StripColumns(@)]
                     /\ UNCHANGED <<warnings, source>>
                     /\ pc' = "csv_read"
    /\ UNCHANGED <<parseInputs, filterVars>>

\* mutant: the override is ignored
NormalizeCsvDetectedOnly ==
    /\ pc = "csv_read"
    /\ LET detected_source == detect_csv_source(df.columns)
       IN  IF detected_source = "outlook"
           THEN /\ df' = normalize_outlook(df)
                /\ source' = detected_source
                /\ UNCHANGED warnings
           ELSE /\ df' = normalize_google_csv(df)
                /\ source' = "google"
                /\ warnings' = IF detected_source = "google" THEN warnings
                               ELSE Append(warnings, W("Could not detect calendar source"))
    /\ pc' = "normalized"
    /\ UNCHANGED <<parseInputs, filterVars>>

\* mutant: an undetected source keeps the tag 'unknown'
NormalizeCsvKeepsUnknown ==
    /\ pc = "csv_read"
    /\ LET detected_source == detect_csv_source(df.columns)
           src == IF source_override # "none" THEN source_override ELSE detected_source
           w1 == IF src # detected_source /\ source_override # "none"
                 THEN <<[kind |-> "Using manual override", source |-> src,
                         detected |-> detected_source]>>
                 ELSE <<>>
       IN  IF src = "outlook"
           THEN /\ df' = normalize_outlook(df)
                /\ source' = src
                /\ warnings' = warnings \o w1
           ELSE IF src = "google"
           THEN /\ df' = normalize_google_csv(df)
                /\ source' = src
                /\ warnings' = warnings \o w1
           ELSE /\ df' = normalize_google_csv(df)
                /\ source' = src
                /\ warnings' = (warnings \o w1) \o <<W("Could not detect calendar source")>>
    /\ pc' = "normalized"
    /\ UNCHANGED <<parseInputs, filterVars>>

\* source detection, override and normalization (lines 432-445)
NormalizeCsv ==
    /\ pc = "csv_read"
    /\ LET detected_source == detect_csv_source(df.columns)
           src == IF source_override # "none" THEN source_override ELSE detected_source
           w1 == IF src # detected_source /\ source_override # "none"
                 THEN <<[kind |-> "Using manual override", source |-> src,
                         detected |-> detected_source]>>
                 ELSE <<>>
       IN  IF src = "outlook"
           THEN /\ df' = normalize_outlook(df)
                /\ source' = src
                /\ warnings' = warnings \o w1
           ELSE IF src = "google"
           THEN /\ df' = normalize_google_csv(df)
                /\ source' = src
                /\ warnings' = warnings \o w1
           ELSE /\ df' = normalize_google_csv(df)
                /\ source' = "google"
                /\ warnings' = (warnings \o w1) \o <<W("Could not detect calendar source")>>
    /\ pc' = "normalized"
    /\ UNCHANGED <<parseInputs, filterVars>>

\* mutant: dropna(subset=['start_datetime'])
HasStartOnly(row) == row.start_datetime # NaT

HasDates(row) == row.start_datetime # NaT /\ row.end_datetime # NaT

\* df.dropna(subset=['start_datetime', 'end_datetime'])
DropNaDates(t) == [t EXCEPT !.rows = SelectSeq(@, HasDates)]

\* mutant: the warning reports all the rows, not the rows dropped
DropInvalidDatesCountsAll ==
    /\ pc = "normalized"
    /\ LET kept == SelectSeq(df.rows, LAMBDA r : r.start_datetime # NaT /\ r.end_datetime # NaT)
           dropped == Len(df.rows) - Len(kept)
       IN  /\ df' = [df EXCEPT !.rows = kept]
           /\ warnings' = IF dropped > 0
                          THEN Append(warnings,
                                      WCount("Dropped rows with invalid dates", Len(df.rows)))
                          ELSE warnings
    /\ pc' = "dates_checked"
    /\ UNCHANGED <<parseInputs, filterVars, source>>

\* lines 447-452
DropInvalidDates ==
    /\ pc = "normalized"
    /\ LET initial_count == Len(df.rows)
           kept == DropNaDates(df)
           dropped == initial_count - Len(kept.rows)
       IN  /\ df' = kept
           /\ warnings' = IF dropped > 0
                          THEN Append(warnings, WCount("Dropped rows with invalid dates", dropped))
                          ELSE warnings
    /\ pc' = "dates_checked"
    /\ UNCHANGED <<parseInputs, filterVars, source>>

\* line 455
CalculateDerivedFields ==
    /\ pc = "dates_checked"
    /\ IF DerivedFieldsRaise(df)
       THEN pc' = "raised" /\ UNCHANGED df
       ELSE pc' = "derived" /\ df' = calculate_derived_fields(df)
    /\ UNCHANGED <<parseInputs, filterVars, source, warnings>>

\* mutant: duration_minutes <= 0 taken as invalid
PositiveDuration(row) == row.duration_minutes > 0

NonNegativeDuration(row) == ~(row.duration_minutes < 0)

\* df[~invalid_duration]
DropNegative(t) == [t EXCEPT !.rows = SelectSeq(@, NonNegativeDuration)]

\* lines 457-464
DropInvalidDurations ==
    /\ pc = "derived"
    /\ LET count == Len(df.rows) - Len(DropNegative(df).rows)
       IN  IF count > 0
           THEN /\ warnings' = Append(warnings, WCount("Dropped rows with invalid duration", count))
                /\ df' = DropNegative(df)
           ELSE UNCHANGED <<warnings, df>>
    /\ pc' = "done"
    /\ UNCHANGED <<parseInputs, filterVars, source>>

----------------------------------------------------------------------------
(* apply_filters.  A keyword is a text of one-character atoms.  The        *)
(* pattern '|'.join(keywords) is a regular expression; the model reads the *)
(* part of the syntax its keywords use: literal characters, '.', a         *)
(* character followed by one '?', '|', and a parenthesis that is never     *)
(* closed.                                                                 *)

\* what a call returns: a table, or nothing when it raised
Returned(t) == [raised |-> FALSE, table |-> t]

Raised == [raised |-> TRUE]

\* '|'.join(keywords)
RECURSIVE JoinPattern(_)
JoinPattern(keywords) ==
    IF keywords = <<>> THEN <<>>
    ELSE IF Len(keywords) = 1 THEN Head(keywords)
    ELSE Head(keywords) \o <<"|">> \o JoinPattern(Tail(keywords))

\* the alternatives of a pattern, split at '|'
RECURSIVE Alternatives(_, _)
Alternatives(pattern, current) ==
    IF pattern = <<>> THEN <<current>>
    ELSE IF Head(pattern) = "|" THEN <<current>> \o Alternatives(Tail(pattern), <<>>)
    ELSE Alternatives(Tail(pattern), Append(current, Head(pattern)))

\* re.compile raises re.error: an unclosed or unopened parenthesis, or a
\* '?' with nothing to repeat
RegexError(pattern) ==
    \/ \E i \in 1..Len(pattern) : pattern[i] \in {"(", ")"}
    \/ \E i \in 1..Len(pattern) :
          pattern[i] = "?" /\ (i = 1 \/ pattern[i - 1] = "|")

\* the alternative alt, from its k-th atom on, matches s at position i
RECURSIVE MatchAt(_, _, _, _)
MatchAt(alt, k, s, i) ==
    IF k > Len(alt) THEN TRUE
    ELSE LET optional == k < Len(alt) /\ alt[k + 1] = "?"
             next == IF optional THEN k + 2 ELSE k + 1
             hit == i <= Len(s) /\ (alt[k] = "." \/ alt[k] = s[i])
         IN  \/ hit /\ MatchAt(alt, next, s, i + 1)
             \/ optional /\ MatchAt(alt, next, s, i)

\* re.search(pattern, s) finds a match
RegexSearch(pattern, s) ==
    LET alts == Alternatives(pattern, <<>>)
    IN  \E a \in 1..Len(alts) : \E i \in 1..(Len(s) + 1) : MatchAt(alts[a], 1, s, i)

\* [k.strip().lower() for k in exclude_keywords if k.strip()]
RECURSIVE CleanKeywords(_)
CleanKeywords(exclude_keywords) ==
    IF exclude_keywords = <<>> THEN <<>>
    ELSE (IF Strip(Head(exclude_keywords)) # <<>>
          THEN <<Lower(Strip(Head(exclude_keywords)))>> ELSE <<>>)
         \o CleanKeywords(Tail(exclude_keywords))

\* ~filtered['subject'].str.lower().str.contains(pattern, na=False)
KeywordMask(pattern, row) ==
    IF row.subject.kind = "NaN" THEN TRUE
    ELSE ~RegexSearch(pattern, Lower(row.subject.s))

\* the row labels of a table: those it carries, or 0..n-1 (the RangeIndex
\* of a frame that was built and never filtered)
IndexOf(t) ==
    IF "index" \in DOMAIN t THEN t.index ELSE [i \in 1..Len(t.rows) |-> i - 1]

\* the members of a set of positions in ascending order
RECURSIVE Ascending(_)
Ascending(S) ==
    IF S = {} THEN <<>>
    ELSE LET m == CHOOSE x \in S : \A y \in S : x <= y
         IN  <<m>> \o Ascending(S \ {m})

\* filtered[mask]: the rows at the positions kept, with their labels
KeepRows(t, kept) ==
    LET pos == Ascending(kept)
    IN  [columns |-> t.columns,
         rows |-> [k \in 1..Len(pos) |-> t.rows[pos[k]]],
         index |-> [k \in 1..Len(pos) |-> IndexOf(t)[pos[k]]]]

\* step 1: filtered[~filtered['is_all_day']]
FilterAllDay(t, exclude_all_day) ==
    IF exclude_all_day
    THEN KeepRows(t, {i \in 1..Len(t.rows) : ~t.rows[i].is_all_day})
    ELSE t

\* mutant: a row as long as min_duration is dropped too
FilterMinDurationStrict(t, min_duration) ==
    IF min_duration > 0
    THEN KeepRows(t, {i \in 1..Len(t.rows) :
                        t.rows[i].duration_minutes > min_duration * SecPerMin})
    ELSE t

\* step 2: filtered[filtered['duration_minutes'] >= min_duration]
FilterMinDuration(t, min_duration) ==
    IF min_duration > 0
    THEN KeepRows(t, {i \in 1..Len(t.rows) :
                        t.rows[i].duration_minutes >= min_duration * SecPerMin})
    ELSE t

\* mutant: only the first row that matches a keyword is removed
FilterKeywordsFirstOnly(t, keywords) ==
    LET hits == {i \in 1..Len(t.rows) : ~KeywordMask(JoinPattern(keywords), t.rows[i])}
        first == CHOOSE i \in hits : \A j \in hits : i <= j
    IN  IF keywords # <<>> /\ hits # {}
        THEN KeepRows(t, (1..Len(t.rows)) \ {first})
        ELSE t

\* step 3: filtered[mask]
FilterKeywords(t, keywords) ==
    IF keywords # <<>>
    THEN KeepRows(t, {i \in 1..Len(t.rows) : KeywordMask(JoinPattern(keywords), t.rows[i])})
    ELSE t

\* mutant: the labels of the input are kept
KeepIndex(t) == [columns |-> t.columns, rows |-> t.rows, index |-> IndexOf(t)]

\* reset_index(drop=True)
ResetIndex(t) ==
    [columns |-> t.columns, rows |-> t.rows, index |-> [i \in 1..Len(t.rows) |-> i - 1]]

\* a step reads a column the table does not have (KeyError), or the pattern
\* does not compile (re.error)
FiltersRaise(t, cfg) ==
    LET keywords == CleanKeywords(cfg.exclude_keywords)
    IN  \/ cfg.exclude_all_day /\ ~InSeq("is_all_day", t.columns)
        \/ cfg.min_duration > 0 /\ ~InSeq("duration_minutes", t.columns)
        \/ keywords # <<>> /\ ~InSeq("subject", t.columns)
        \/ keywords # <<>> /\ RegexError(JoinPattern(keywords))

\* cfg = [exclude_all_day, min_duration, exclude_keywords]; the rows keep
\* their order and reset_index numbers them again from 0
apply_filters(t, cfg) ==
    IF FiltersRaise(t, cfg) THEN Raised
    ELSE Returned(ResetIndex(FilterKeywords(
                      FilterMinDuration(FilterAllDay(t, cfg.exclude_all_day), cfg.min_duration),
                      CleanKeywords(cfg.exclude_keywords))))

----------------------------------------------------------------------------
(* Metrics.  total_hours is a float rounded to one decimal: the model      *)
(* keeps the number of tenths of an hour.  Rounding is numpy's: to the     *)
(* nearest, a tie to the even neighbour; the model rounds the exact        *)
(* quotient.                                                               *)

\* round(n / d) for n >= 0, d > 0, ties to even
RoundHalfEven(n, d) ==
    LET q == n \div d
        r == n % d
    IN  IF 2 * r < d THEN q
        ELSE IF 2 * r > d THEN q + 1
        ELSE IF q % 2 = 0 THEN q ELSE q + 1

\* mutant: rounded to whole hours
TotalHoursWhole(total_minutes) == 10 * RoundHalfEven(total_minutes, 60 * SecPerMin)

\* (total_minutes / 60).round(1), in tenths of an hour
TotalHours(total_minutes) == RoundHalfEven(total_minutes, 6 * SecPerMin)

RECURSIVE SumDuration(_)
SumDuration(rows) ==
    IF rows = <<>> THEN 0 ELSE Head(rows).duration_minutes + SumDuration(Tail(rows))

\* the characters in code point order
Alphabet ==
    <<" ", "(", ")", "+", ".", "1", ":", "?">> \o UpperLetters \o LowerLetters \o <<"|">>

AtomRank(a) == CHOOSE i \in 1..Len(Alphabet) : Alphabet[i] = a

\* a < b for two strings
RECURSIVE TextLess(_, _)
TextLess(a, b) ==
    IF b = <<>> THEN FALSE
    ELSE IF a = <<>> THEN TRUE
    ELSE IF Head(a) = Head(b) THEN TextLess(Tail(a), Tail(b))
    ELSE AtomRank(Head(a)) < AtomRank(Head(b))

\* the texts of a set in ascending order: the group keys of a groupby
RECURSIVE SortedTexts(_)
SortedTexts(S) ==
    IF S = {} THEN <<>>
    ELSE LET m == CHOOSE x \in S : \A y \in S \ {x} : TextLess(x, y)
         IN  <<m>> \o SortedTexts(S \ {m})

\* sort_values('total_hours', ascending=False): descending, rows of equal
\* total_hours in their group order (numpy sorts fewer than 17 elements by
\* insertion)
RECURSIVE SortByHoursDesc(_)
SortByHoursDesc(rows) ==
    IF rows = <<>> THEN <<>>
    ELSE LET m == CHOOSE i \in 1..Len(rows) :
                     /\ \A j \in 1..Len(rows) : rows[j].total_hours <= rows[i].total_hours
                     /\ \A j \in 1..(i - 1) : rows[j].total_hours < rows[i].total_hours
         IN  <<rows[m]>> \o SortByHoursDesc(SubSeq(rows, 1, m - 1) \o SubSeq(rows, m + 1, Len(rows)))

\* DataFrame.head(n)
HeadRows(rows, n) == SubSeq(rows, 1, IF Len(rows) < n THEN Len(rows) ELSE n)

\* the default of top_n
DefaultTopN == 10

TopMeetingsColumns == <<"subject", "occurrences", "total_hours", "avg_duration">>

\* groupby('subject') leaves out the rows whose subject is NaN
SubjectKeys(t) ==
    SortedTexts({t.rows[i].subject.s : i \in {j \in 1..Len(t.rows) : t.rows[j].subject.kind = "str"}})

SubjectGroup(t, key) ==
    SelectSeq(t.rows, LAMBDA r : r.subject.kind = "str" /\ r.subject.s = key)

get_top_meetings_by_time(t, top_n) ==
    IF IsEmpty(t) THEN [columns |-> TopMeetingsColumns, rows |-> <<>>]
    ELSE LET keys == SubjectKeys(t)
             grouped == [k \in 1..Len(keys) |->
                            LET g == SubjectGroup(t, keys[k])
                            IN  [subject |-> keys[k],
                                 occurrences |-> Len(g),
                                 total_hours |-> TotalHours(SumDuration(g)),
                                 avg_duration |-> RoundHalfEven(SumDuration(g), SecPerMin * Len(g))]]
         IN  [columns |-> TopMeetingsColumns,
              rows |-> HeadRows(SortByHoursDesc(grouped), top_n)]

TopOrganizersColumns == <<"organizer", "meetings", "total_hours">>

HasOrganizer(row) == Strip(row.organizer) # <<>>

OrganizerKeys(t) ==
    SortedTexts({t.rows[i].organizer : i \in {j \in 1..Len(t.rows) : HasOrganizer(t.rows[j])}})

OrganizerGroup(t, key) == SelectSeq(t.rows, LAMBDA r : HasOrganizer(r) /\ r.organizer = key)

get_top_organizers(t, top_n) ==
    IF IsEmpty(t) \/ \A i \in 1..Len(t.rows) : ~HasOrganizer(t.rows[i])
    THEN [columns |-> TopOrganizersColumns, rows |-> <<>>]
    ELSE LET keys == OrganizerKeys(t)
             grouped == [k \in 1..Len(keys) |->
                            LET g == OrganizerGroup(t, keys[k])
                            IN  [organizer |-> keys[k],
                                 meetings |-> Len(g),
                                 total_hours |-> TotalHours(SumDuration(g))]]
         IN  [columns |-> TopOrganizersColumns,
              rows |-> HeadRows(SortByHoursDesc(grouped), top_n)]

WeekdayColumns == <<"weekday", "total_hours", "meeting_count">>

\* the rows of weekday_num n.  weekday is the name of weekday_num, so the
\* groups of (weekday, weekday_num) are the groups of weekday_num.
WeekdayGroup(t, n) == SelectSeq(t.rows, LAMBDA r : r.weekday_num = n)

\* ('subject', 'count'): the rows of the group whose subject is not NaN
CountSubjects(rows) == Len(SelectSeq(rows, LAMBDA r : r.subject.kind # "NaN"))

\* the groups of weekday_num n..7, sorted by weekday_num
RECURSIVE WeekdayGroupsFrom(_, _)
WeekdayGroupsFrom(t, n) ==
    IF n > 7 THEN <<>>
    ELSE LET g == WeekdayGroup(t, n)
         IN  (IF g = <<>> THEN <<>>
              ELSE <<[weekday |-> g[1].weekday,
                      total_hours |-> TotalHours(SumDuration(g)),
                      meeting_count |-> CountSubjects(g)]>>)
             \o WeekdayGroupsFrom(t, n + 1)

get_weekday_distribution(t) ==
    IF IsEmpty(t) THEN [columns |-> WeekdayColumns, rows |-> <<>>]
    ELSE [columns |-> WeekdayColumns, rows |-> WeekdayGroupsFrom(t, 0)]

\* the list recurring_keywords of estimate_recurring_time
recurring_keywords ==
    << <<"w", "e", "e", "k", "l", "y">>,
       <<"d", "a", "i", "l", "y">>,
       <<"s", "t", "a", "n", "d", "u", "p">>,
       <<"s", "t", "a", "n", "d", "-", "u", "p">>,
       <<"s", "t", "a", "n", "d", " ", "u", "p">>,
       <<"s", "y", "n", "c">>,
       <<"1", ":", "1">>,
       <<"1", "-", "1">>,
       <<"o", "n", "e", " ", "o", "n", " ", "o", "n", "e">>,
       <<"r", "e", "c", "u", "r", "r", "i", "n", "g">>,
       <<"m", "o", "n", "d", "a", "y">>,
       <<"t", "u", "e", "s", "d", "a", "y">>,
       <<"w", "e", "d", "n", "e", "s", "d", "a", "y">>,
       <<"t", "h", "u", "r", "s", "d", "a", "y">>,
       <<"f", "r", "i", "d", "a", "y">>,
       <<"t", "e", "a", "m", " ", "m", "e", "e", "t", "i", "n", "g">>,
       <<"s", "t", "a", "f", "f", " ", "m", "e", "e", "t", "i", "n", "g">>,
       <<"c", "h", "e", "c", "k", "-", "i", "n">>,
       <<"c", "h", "e", "c", "k", " ", "i", "n">>,
       <<"r", "e", "t", "r", "o">>,
       <<"s", "p", "r", "i", "n", "t">>,
       <<"s", "c", "r", "u", "m">>,
       <<"p", "l", "a", "n", "n", "i", "n", "g">>,
       <<"r", "e", "v", "i", "e", "w">> >>

\* df['subject'].str.lower().str.strip(): NaN stays NaN
NormalizedSubject(row) ==
    IF row.subject.kind = "NaN" THEN NaN ELSE Str(Strip(Lower(row.subject.s)))

\* subject_counts[subject_counts >= 2]: value_counts leaves NaN out
IsRecurringSubject(t, row) ==
    /\ NormalizedSubject(row).kind = "str"
    /\ \E i, j \in 1..Len(t.rows) :
          /\ i # j
          /\ NormalizedSubject(t.rows[i]) = NormalizedSubject(row)
          /\ NormalizedSubject(t.rows[j]) = NormalizedSubject(row)

\* subjects.str.contains(keyword, na=False) for some keyword of the list
HasRecurringKeyword(row) ==
    /\ NormalizedSubject(row).kind = "str"
    /\ \E k \in 1..Len(recurring_keywords) :
          RegexSearch(recurring_keywords[k], NormalizedSubject(row).s)

\* mutant: only the subjects that occur twice count
IsRecurringRepeatsOnly(t, row) == IsRecurringSubject(t, row)

\* mutant: only the subjects with a keyword count
IsRecurringKeywordOnly(t, row) == HasRecurringKeyword(row)

\* the mask is_recurring
IsRecurring(t, row) == IsRecurringSubject(t, row) \/ HasRecurringKeyword(row)

\* df.loc[is_recurring, 'duration_minutes'].sum()
estimate_recurring_time(t) ==
    IF IsEmpty(t) THEN 0
    ELSE SumDuration(SelectSeq(t.rows, LAMBDA r : IsRecurring(t, r)))

\* the sum of a sequence of numbers
RECURSIVE SumSeq(_)
SumSeq(s) == IF s = <<>> THEN 0 ELSE Head(s) + SumSeq(Tail(s))

\* what calculate_kpis returns for an empty table
ZeroKpis == [total_hours |-> 0, total_meetings |-> 0, avg_duration |-> 0, recurring_pct |-> 0]

\* mutant: the whole duration taken as recurring
KpisOfAllRecurring(t) ==
    LET total_minutes == SumDuration(t.rows)
    IN  [total_hours |-> TotalHours(total_minutes),
         total_meetings |-> Len(t.rows),
         avg_duration |-> RoundHalfEven(total_minutes, 6 * Len(t.rows)),
         recurring_pct |-> IF total_minutes > 0 THEN 1000 ELSE 0]

\* lines 29-43: total_hours in tenths of an hour, avg_duration in tenths of
\* a minute, recurring_pct in tenths of a percent
KpisOf(t) ==
    LET total_minutes == SumDuration(t.rows)
        total_meetings == Len(t.rows)
        recurring_minutes == estimate_recurring_time(t)
    IN  [total_hours |-> TotalHours(total_minutes),
         total_meetings |-> total_meetings,
         avg_duration |-> RoundHalfEven(total_minutes, 6 * total_meetings),
         recurring_pct |-> IF total_minutes > 0
                           THEN RoundHalfEven(recurring_minutes * 1000, total_minutes)
                           ELSE 0]

\* mutant: no test for the empty table; df['duration_minutes'] of a table
\* without columns raises KeyError and the mean of no rows is not a number
calculate_kpis_unguarded(t) ==
    IF Len(t.columns) = 0 THEN Raised
    ELSE IF Len(t.rows) = 0 THEN [ZeroKpis EXCEPT !.avg_duration = NaT]
    ELSE KpisOf(t)

calculate_kpis(t) == IF IsEmpty(t) THEN ZeroKpis ELSE KpisOf(t)

LongMeetingsColumns == <<"subject", "duration_minutes", "date", "organizer">>

\* the default of threshold_minutes
DefaultThreshold == 60

\* result.head(20)
LongMeetingsLimit == 20

\* mutant: the rows are left in their input order
Unsorted(rows) == rows

\* sort_values('duration_minutes', ascending=False): rows of equal duration
\* stay in their input order
RECURSIVE SortByDurationDesc(_)
SortByDurationDesc(rows) ==
    IF rows = <<>> THEN <<>>
    ELSE LET m == CHOOSE i \in 1..Len(rows) :
                     /\ \A j \in 1..Len(rows) :
                           rows[j].duration_minutes <= rows[i].duration_minutes
                     /\ \A j \in 1..(i - 1) :
                           rows[j].duration_minutes < rows[i].duration_minutes
         IN  <<rows[m]>>
             \o SortByDurationDesc(SubSeq(rows, 1, m - 1) \o SubSeq(rows, m + 1, Len(rows)))

\* duration_minutes of the result is astype(int): whole minutes
get_long_meetings(t, threshold_minutes) ==
    IF IsEmpty(t) THEN [columns |-> LongMeetingsColumns, rows |-> <<>>]
    ELSE LET long_meetings ==
                 SortByDurationDesc(SelectSeq(t.rows,
                     LAMBDA r : r.duration_minutes > threshold_minutes * SecPerMin))
             result == [k \in 1..Len(long_meetings) |->
                           [subject |-> long_meetings[k].subject,
                            duration_minutes |-> long_meetings[k].duration_minutes \div SecPerMin,
                            date |-> long_meetings[k].date,
                            organizer |-> long_meetings[k].organizer]]
         IN  [columns |-> LongMeetingsColumns, rows |-> HeadRows(result, LongMeetingsLimit)]

DailyLoadColumns == <<"date", "total_hours", "meeting_count">>

\* groupby('date') ... sort_values('date'): one row per date, ascending
get_daily_load(t) ==
    IF IsEmpty(t) THEN [columns |-> DailyLoadColumns, rows |-> <<>>]
    ELSE LET dates == Ascending({t.rows[i].date : i \in 1..Len(t.rows)})
         IN  [columns |-> DailyLoadColumns,
              rows |-> [k \in 1..Len(dates) |->
                           LET g == SelectSeq(t.rows, LAMBDA r : r.date = dates[k])
                           IN  [date |-> dates[k],
                                total_hours |-> TotalHours(SumDuration(g)),
                                meeting_count |-> CountSubjects(g)]]]

\* the largest number of a non-empty sequence
MaxOf(s) == CHOOSE x \in {s[i] : i \in 1..Len(s)} : \A i \in 1..Len(s) : s[i] <= x

\* weekday_dist['total_hours'].idxmax(): the first row with the largest value
Busiest(rows) ==
    rows[CHOOSE i \in 1..Len(rows) :
             /\ \A j \in 1..Len(rows) : rows[j].total_hours <= rows[i].total_hours
             /\ \A j \in 1..(i - 1) : rows[j].total_hours < rows[i].total_hours]

\* (df['duration_minutes'] / 15).round() * 15, in minutes
RoundedDuration(row) == RoundHalfEven(row.duration_minutes, 15 * SecPerMin) * 15

\* rounded_durations.mode().iloc[0]: the most frequent value, the smallest
\* of them when several are as frequent
MostCommon(values) ==
    LET count(v) == Cardinality({i \in 1..Len(values) : values[i] = v})
        S == {values[i] : i \in 1..Len(values)}
    IN  CHOOSE v \in S : \A w \in S : count(w) < count(v) \/ (count(w) = count(v) /\ v <= w)

\* x.hour
HourOf(ts) == (ts % SecPerDay) \div 3600

\* what detect_patterns returns for an empty table: the dict without keys
NoPatterns == <<>>

\* mutant: a meeting of exactly 30 minutes is in no bucket
detect_patterns_short_below_30(t) ==
    IF IsEmpty(t) THEN NoPatterns
    ELSE LET weekday_dist == get_weekday_distribution(t).rows
             daily_load == get_daily_load(t).rows
             counts == [k \in 1..Len(daily_load) |-> daily_load[k].meeting_count]
             hours == [k \in 1..Len(daily_load) |-> daily_load[k].total_hours]
             long == SelectSeq(t.rows, LAMBDA r : r.duration_minutes > 60 * SecPerMin)
         IN  [busiest_day |-> Busiest(weekday_dist).weekday,
              busiest_day_hours |-> Busiest(weekday_dist).total_hours,
              short_meetings |->
                  Len(SelectSeq(t.rows, LAMBDA r : r.duration_minutes < 30 * SecPerMin)),
              medium_meetings |->
                  Len(SelectSeq(t.rows, LAMBDA r : /\ r.duration_minutes > 30 * SecPerMin
                                                   /\ r.duration_minutes <= 60 * SecPerMin)),
              long_meetings |-> Len(long),
              long_meeting_hours |-> TotalHours(SumDuration(long)),
              avg_meetings_per_day |-> RoundHalfEven(10 * SumSeq(counts), Len(daily_load)),
              avg_hours_per_day |-> RoundHalfEven(SumSeq(hours), Len(daily_load)),
              max_meetings_day |-> MaxOf(counts),
              most_common_duration |->
                  MostCommon([i \in 1..Len(t.rows) |-> RoundedDuration(t.rows[i])]),
              early_meetings |->
                  Len(SelectSeq(t.rows, LAMBDA r : HourOf(r.start_datetime) < 9)),
              late_meetings |->
                  Len(SelectSeq(t.rows, LAMBDA r : HourOf(r.start_datetime) >= 17))]

\* hours in tenths of an hour, avg_meetings_per_day in tenths
detect_patterns(t) ==
    IF IsEmpty(t) THEN NoPatterns
    ELSE LET weekday_dist == get_weekday_distribution(t).rows
             daily_load == get_daily_load(t).rows
             counts == [k \in 1..Len(daily_load) |-> daily_load[k].meeting_count]
             hours == [k \in 1..Len(daily_load) |-> daily_load[k].total_hours]
             long == SelectSeq(t.rows, LAMBDA r : r.duration_minutes > 60 * SecPerMin)
         IN  [busiest_day |-> Busiest(weekday_dist).weekday,
              busiest_day_hours |-> Busiest(weekday_dist).total_hours,
              short_meetings |->
                  Len(SelectSeq(t.rows, LAMBDA r : r.duration_minutes <= 30 * SecPerMin)),
              medium_meetings |->
                  Len(SelectSeq(t.rows, LAMBDA r : /\ r.duration_minutes > 30 * SecPerMin
                                                   /\ r.duration_minutes <= 60 * SecPerMin)),
              long_meetings |-> Len(long),
              long_meeting_hours |-> TotalHours(SumDuration(long)),
              avg_meetings_per_day |-> RoundHalfEven(10 * SumSeq(counts), Len(daily_load)),
              avg_hours_per_day |-> RoundHalfEven(SumSeq(hours), Len(daily_load)),
              max_meetings_day |-> MaxOf(counts),
              most_common_duration |->
                  MostCommon([i \in 1..Len(t.rows) |-> RoundedDuration(t.rows[i])]),
              early_meetings |->
                  Len(SelectSeq(t.rows, LAMBDA r : HourOf(r.start_datetime) < 9)),
              late_meetings |->
                  Len(SelectSeq(t.rows, LAMBDA r : HourOf(r.start_datetime) >= 17))]

----------------------------------------------------------------------------
(* The inputs of the runs *)

\* the longest CSV body and the longest list of VEVENTs tried
MaxRows == 2

\* all sequences over S of length 0..n
SeqsUpTo(S, n) == UNION {[1..k -> S] : k \in 0..n}

TSync == <<"S", "y", "n", "c">>

\* "Weekly Sync"
TWeeklySync == <<"W", "e", "e", "k", "l", "y", " ", "S", "y", "n", "c">>

\* "Status Update"
TStatusUpdate == <<"S", "t", "a", "t", "u", "s", " ", "U", "p", "d", "a", "t", "e">>

TBlank == <<" ", " ">>

DateCell(sep, a, b, c, la, lc) ==
    [kind |-> "date", sep |-> sep, a |-> a, b |-> b, c |-> c, la |-> la, lc |-> lc]

TimeCell(h, m, s, ampm) == [kind |-> "time", h |-> h, m |-> m, s |-> s, ampm |-> ampm]

Junk == [kind |-> "junk"]

\* "01/15/2024", a Monday
Jan15 == DateCell("/", 1, 15, 2024, 2, 4)

\* "2024-01-16"
Jan16 == DateCell("-", 2024, 1, 16, 4, 2)

NineAM == TimeCell(9, 0, -1, "AM")

TenAM == TimeCell(10, 0, -1, "AM")

\* "09:30:30"
HalfPastNine == TimeCell(9, 30, 30, "")

Raw(subject, sd, st, ed, et, all_day, organizer) ==
    [subject |-> subject, start_date |-> sd, start_time |-> st, end_date |-> ed,
     end_time |-> et, all_day |-> all_day, organizer |-> organizer]

\* Subject "Weekly Sync", 01/15/2024 09:00 AM to 01/15/2024 10:00 AM
WeeklySyncRow == Raw(Str(TWeeklySync), Jan15, NineAM, Jan15, TenAM, NaN, Str(<<"A">>))

RawRowPool ==
    { WeeklySyncRow,
      Raw(Str(<<"a">>), Jan15, TenAM, Jan15, NineAM, NaN, Str(<<"B">>)),
      Raw(Str(<<"a">>), NaN, NineAM, Jan15, TenAM, NaN, NaN),
      Raw(Str(TSync), Jan15, NineAM, Junk, TenAM, NaN, Str(<<"A">>)),
      Raw(Str(TBlank), Jan15, NineAM, Jan16, Junk, Str(<<" ", "Y", "e", "s">>), NaN),
      Raw(NaN, Jan16, NaN, Jan16, HalfPastNine, Str(<<"n", "o">>), Str(TBlank)) }

HeaderPool ==
    { <<Col("Subject"), Col("Start Date"), Col("Start Time"), Col("End Date"),
        Col("End Time"), Col("All day event"), Col("Organizer")>>,
      <<Col("Subject"), Col("Start Date"), Col("Start Time"), Col("End Date"),
        Col("End Time"), Col("All Day Event"), Col("Description")>>,
      << <<" ", "Start Date">>, <<"Start Time", " ">>, Col("End Date"), Col("End Time"),
         <<" ", "Organizer", " ">> >>,
      <<Col("Title"), Col("Start Date"), Col("Start Time"), Col("End Date"), Col("End Time")>>,
      <<Col("Subject"), Col("Start Date"), Col("End Date")>> }

DateProp(ts) == [kind |-> "date", ts |-> ts]

DatetimeProp(ts, aware) == [kind |-> "datetime", ts |-> ts, aware |-> aware]

Timedelta(secs) == [kind |-> "timedelta", secs |-> secs]

VEvent(summary, dtstart, dtend, duration, organizer) ==
    [summary |-> summary, dtstart |-> dtstart, dtend |-> dtend, duration |-> duration,
     organizer |-> organizer]

EventPool ==
    { VEvent(Str(TSync), DatetimeProp(MkDatetime(2024, 1, 15, 9, 0, 0), TRUE),
             DatetimeProp(MkDatetime(2024, 1, 15, 10, 0, 0), TRUE), Absent,
             Str(<<"mailto:", "A">>)),
      VEvent(NaN, DateProp(MkDatetime(2024, 1, 15, 0, 0, 0)), Absent, Absent, NaN),
      VEvent(Str(<<"a">>), Absent, DatetimeProp(MkDatetime(2024, 1, 15, 10, 0, 0), FALSE),
             Absent, NaN),
      VEvent(EmptyStr, DatetimeProp(MkDatetime(2024, 1, 15, 10, 0, 0), FALSE),
             DatetimeProp(MkDatetime(2024, 1, 15, 9, 0, 0), FALSE), Absent, NaN),
      VEvent(Str(<<"a">>), DatetimeProp(MkDatetime(2024, 1, 16, 9, 0, 0), FALSE), Absent,
             Timedelta(1830), Str(<<"B">>)),
      VEvent(Str(<<"a">>), DateProp(MkDatetime(2024, 1, 16, 0, 0, 0)),
             DatetimeProp(MkDatetime(2024, 1, 16, 10, 0, 0), TRUE), Absent, NaN),
      VEvent(Str(<<"a">>), DatetimeProp(MkDatetime(2024, 1, 16, 9, 0, 0), FALSE),
             DateProp(MkDatetime(2024, 1, 17, 0, 0, 0)), Absent, NaN) }

FileContents ==
    {[kind |-> "empty", utf8 |-> TRUE], [kind |-> "ics_broken", utf8 |-> TRUE]}
    \cup {[kind |-> "csv", utf8 |-> u, header |-> h, rows |-> r] :
             u \in BOOLEAN, h \in HeaderPool, r \in SeqsUpTo(RawRowPool, MaxRows)}
    \cup {[kind |-> "ics", utf8 |-> u, events |-> e] :
             u \in BOOLEAN, e \in SeqsUpTo(EventPool, MaxRows)}

Filenames == {<<"cal", ".csv">>, <<"cal", ".ICS">>, <<"upload">>}

Overrides == {"none", "outlook", "google"}

NoFilters == [exclude_all_day |-> FALSE, min_duration |-> 0, exclude_keywords |-> <<>>]

\* the value of a result before the call
NotCalled == [raised |-> FALSE, called |-> FALSE]

Init ==
    /\ pc = "start"
    /\ file_content \in FileContents
    /\ filename \in Filenames
    /\ source_override \in Overrides
    /\ icalendar_installed \in BOOLEAN
    /\ df = EmptyFrame
    /\ source = ""
    /\ warnings = <<>>
    /\ filter_cfg = NoFilters
    /\ filtered = NotCalled
    /\ refiltered = NotCalled
    /\ metrics = NotCalled

Next ==
    \/ ParseIcsFile
    \/ ReadCsv
    \/ NormalizeCsv
    \/ DropInvalidDates
    \/ CalculateDerivedFields
    \/ DropInvalidDurations

Spec == Init /\ [][Next]_vars

----------------------------------------------------------------------------
(* detect_csv_source on the headers of up to MaxCols columns               *)

MaxCols == 3

DetectColumnPool ==
    { Col("Organizer"), <<" ", "Organizer", " ">>, Col("organizer"), Col("Required Attendees"),
      Col("Meeting Organizer"), Col("Description"), <<"Private", " ">>, Col("Subject"),
      Col("subject"), Col("Start Date"), Col("Location") }

\* read_csv gives no two columns the same name
Headers ==
    {h \in SeqsUpTo(DetectColumnPool, MaxCols) :
        \A i, j \in 1..Len(h) : i # j => h[i] # h[j]}

Idle ==
    /\ file_content = [kind |-> "empty", utf8 |-> TRUE]
    /\ filename = <<>>
    /\ source_override = "none"
    /\ icalendar_installed = TRUE
    /\ warnings = <<>>

InitDetect ==
    /\ pc = "detect"
    /\ Idle
    /\ \E h \in Headers : df = [columns |-> h, rows |-> <<>>]
    /\ source = ""
    /\ filter_cfg = NoFilters
    /\ filtered = NotCalled
    /\ refiltered = NotCalled
    /\ metrics = NotCalled

DetectCsvSource ==
    /\ pc = "detect"
    /\ source' = detect_csv_source(df.columns)
    /\ pc' = "detected"
    /\ UNCHANGED <<parseInputs, filterVars, df, warnings>>

SpecDetect == InitDetect /\ [][DetectCsvSource]_vars

----------------------------------------------------------------------------
(* detect_file_type on buffers of up to MaxPieces pieces                   *)

MaxPieces == 3

BytePool == {" ", "\n", "x", "0xFF", "BEGIN:VCALENDAR", Spaces490}

FilenamePool ==
    { <<>>, <<"upload">>, <<"cal", ".csv">>, <<"cal", ".ics">>, <<"cal", ".ICS">>,
      <<"cal", ".ics", ".csv">>, <<"cal", ".Csv", ".ics">>, <<"cal", ".csv", " ">> }

InitFileType ==
    /\ pc = "detect_file_type"
    /\ \E b \in SeqsUpTo(BytePool, MaxPieces) : file_content = [kind |-> "bytes", bytes |-> b]
    /\ filename \in FilenamePool
    /\ source_override = "none"
    /\ icalendar_installed = TRUE
    /\ df = EmptyFrame
    /\ source = ""
    /\ warnings = <<>>
    /\ filter_cfg = NoFilters
    /\ filtered = NotCalled
    /\ refiltered = NotCalled
    /\ metrics = NotCalled

\* source holds the file type returned
DetectFileType ==
    /\ pc = "detect_file_type"
    /\ source' = detect_file_type(file_content, filename)
    /\ pc' = "file_type_detected"
    /\ UNCHANGED <<parseInputs, filterVars, df, warnings>>

SpecFileType == InitFileType /\ [][DetectFileType]_vars

----------------------------------------------------------------------------
(* parse_datetime_str on one date cell and one time cell                   *)

DateCellPool ==
    { NaN, EmptyStr, [kind |-> "blank"], Junk, Jan15, Jan16,
      DateCell("/", 15, 1, 2024, 2, 4), DateCell("-", 1, 15, 2024, 2, 4),
      DateCell("/", 1, 15, 24, 2, 2), DateCell("/", 15, 1, 24, 2, 2),
      DateCell("/", 2024, 1, 15, 4, 2), DateCell("/", 2, 30, 2024, 2, 4),
      DateCell("/", 3, 4, 2024, 1, 4), DateCell("/", 3, 4, 24, 1, 2),
      DateCell("/", 12, 11, 2024, 2, 4), DateCell("/", 0, 5, 2024, 1, 4) }

TimeCellPool ==
    { NaN, EmptyStr, [kind |-> "blank"], Junk, NineAM, TenAM, HalfPastNine,
      TimeCell(13, 0, -1, ""), TimeCell(13, 0, -1, "PM"), TimeCell(9, 0, 0, "PM"),
      TimeCell(25, 0, -1, ""), TimeCell(12, 0, -1, "AM") }

InitParseDatetime ==
    /\ pc = "parse_datetime_str"
    /\ \E d \in DateCellPool, t \in TimeCellPool :
          file_content = [kind |-> "cells", date_str |-> d, time_str |-> t]
    /\ filename = <<>>
    /\ source_override = "none"
    /\ icalendar_installed = TRUE
    /\ df = EmptyFrame
    /\ source = ""
    /\ warnings = <<>>
    /\ filter_cfg = NoFilters
    /\ filtered = NotCalled
    /\ refiltered = NotCalled
    /\ metrics = NotCalled

\* metrics holds the timestamp returned, NaT for None
ParseDatetimeStr ==
    /\ pc = "parse_datetime_str"
    /\ metrics' = [value |-> parse_datetime_str(file_content.date_str, file_content.time_str)]
    /\ pc' = "datetime_parsed"
    /\ UNCHANGED <<parseInputs, df, source, warnings, filter_cfg, filtered, refiltered>>

SpecParseDatetime == InitParseDatetime /\ [][ParseDatetimeStr]_vars

----------------------------------------------------------------------------
(* apply_filters and the metrics on canonical tables: the tables           *)
(* parse_calendar_file returns.  A subject is NaN when the CSV had no      *)
(* subject column.                                                         *)

CanonicalColumns == NormalizedColumns \o DerivedColumns

Canon(subject, start, secs, is_all_day, organizer) ==
    DeriveRow([subject |-> subject, start_datetime |-> start, end_datetime |-> start + secs,
               is_all_day |-> is_all_day, organizer |-> organizer, end_aware |-> FALSE])

CanonPool ==
    { Canon(Str(TSync), MkDatetime(2024, 1, 15, 9, 0, 0), 3600, FALSE, <<"A">>),
      Canon(Str(<<"a">>), MkDatetime(2024, 1, 15, 10, 0, 0), 1800, FALSE, <<>>),
      Canon(NaN, MkDatetime(2024, 1, 16, 9, 0, 0), 180, FALSE, <<"B">>),
      Canon(Str(<<"s", "y", "n", "c">>), MkDatetime(2024, 1, 16, 0, 0, 0), 86400, TRUE, <<"A">>),
      Canon(Str(<<"a">>), MkDatetime(2024, 1, 17, 9, 0, 0), 2700, FALSE, <<"B">>),
      Canon(Str(<<"1", ":", "1">>), MkDatetime(2024, 1, 15, 13, 0, 0), 4530, FALSE, TBlank),
      Canon(Str(TStatusUpdate), MkDatetime(2024, 1, 15, 14, 0, 0), 1800, FALSE, <<"A">>),
      Canon(Str(TStatusUpdate), MkDatetime(2024, 1, 16, 14, 0, 0), 2700, FALSE, <<"A">>),
      Canon(Str(<<"x">>), MkDatetime(2024, 1, 17, 18, 0, 0), 0, FALSE, <<"B">>) }

\* the row labels of a table returned by parse_calendar_file: the positions
\* of its rows in the file, here with one dropped row before each
GappedIndex(n) == [i \in 1..n |-> 2 * i - 1]

CanonTables ==
    {EmptyFrame}
    \cup {[columns |-> CanonicalColumns, rows |-> r, index |-> GappedIndex(Len(r))] :
             r \in SeqsUpTo(CanonPool, MaxRows)}

KeywordLists ==
    { <<>>, << <<" ">> >>, << <<"s", "y", "n", "c">> >>, << <<" ", "S", "y", "n", "c">>, <<"a">> >>,
      << <<"1", ":", "1", "?">> >>, << <<"(">> >> }

FilterConfigs ==
    [exclude_all_day : BOOLEAN, min_duration : {0, 30, 45}, exclude_keywords : KeywordLists]

InitFilter ==
    /\ pc = "filter"
    /\ Idle
    /\ df \in CanonTables
    /\ source = ""
    /\ filter_cfg \in FilterConfigs
    /\ filtered = NotCalled
    /\ refiltered = NotCalled
    /\ metrics = NotCalled

ApplyFilters ==
    /\ pc = "filter"
    /\ filtered' = apply_filters(df, filter_cfg)
    /\ pc' = "filtered"
    /\ UNCHANGED <<parseInputs, df, source, warnings, filter_cfg, refiltered, metrics>>

\* the same configuration applied to the table the first call returned
ApplyFiltersAgain ==
    /\ pc = "filtered"
    /\ ~filtered.raised
    /\ refiltered' = apply_filters(filtered.table, filter_cfg)
    /\ pc' = "refiltered"
    /\ UNCHANGED <<parseInputs, df, source, warnings, filter_cfg, filtered, metrics>>

SpecFilter == InitFilter /\ [][ApplyFilters \/ ApplyFiltersAgain]_vars

\* tables of 19 to 22 meetings longer than an hour, of 61 to 83 minutes in
\* no order, one a day
LongTableSizes == 19..22

LongTables ==
    {[columns |-> CanonicalColumns,
      rows |-> [i \in 1..n |->
                   Canon(Str(<<"a">>), MkDatetime(2024, 1, i, 9, 0, 0),
                         (61 + ((7 * i) % 23)) * SecPerMin, FALSE, <<"A">>)],
      index |-> GappedIndex(n)] : n \in LongTableSizes}

\* the filtered table the metrics read
InitMetrics ==
    /\ pc = "metrics"
    /\ Idle
    /\ df \in CanonTables \cup LongTables
    /\ source = ""
    /\ filter_cfg = NoFilters
    /\ filtered = apply_filters(df, filter_cfg)
    /\ refiltered = NotCalled
    /\ metrics = NotCalled

GetTopMeetingsByTime ==
    /\ pc = "metrics"
    /\ metrics' = get_top_meetings_by_time(filtered.table, DefaultTopN)
    /\ pc' = "get_top_meetings_by_time"
    /\ UNCHANGED <<parseInputs, df, source, warnings, filter_cfg, filtered, refiltered>>

GetTopOrganizers ==
    /\ pc = "metrics"
    /\ metrics' = get_top_organizers(filtered.table, DefaultTopN)
    /\ pc' = "get_top_organizers"
    /\ UNCHANGED <<parseInputs, df, source, warnings, filter_cfg, filtered, refiltered>>

GetWeekdayDistribution ==
    /\ pc = "metrics"
    /\ metrics' = get_weekday_distribution(filtered.table)
    /\ pc' = "get_weekday_distribution"
    /\ UNCHANGED <<parseInputs, df, source, warnings, filter_cfg, filtered, refiltered>>

CalculateKpis ==
    /\ pc = "metrics"
    /\ metrics' = calculate_kpis(filtered.table)
    /\ pc' = "calculate_kpis"
    /\ UNCHANGED <<parseInputs, df, source, warnings, filter_cfg, filtered, refiltered>>

EstimateRecurringTimeOfFiltered ==
    /\ pc = "metrics"
    /\ metrics' = [recurring_minutes |-> estimate_recurring_time(filtered.table)]
    /\ pc' = "estimate_recurring_time"
    /\ UNCHANGED <<parseInputs, df, source, warnings, filter_cfg, filtered, refiltered>>

GetLongMeetings ==
    /\ pc = "metrics"
    /\ metrics' = get_long_meetings(filtered.table, DefaultThreshold)
    /\ pc' = "get_long_meetings"
    /\ UNCHANGED <<parseInputs, df, source, warnings, filter_cfg, filtered, refiltered>>

GetDailyLoad ==
    /\ pc = "metrics"
    /\ metrics' = get_daily_load(filtered.table)
    /\ pc' = "get_daily_load"
    /\ UNCHANGED <<parseInputs, df, source, warnings, filter_cfg, filtered, refiltered>>

DetectPatterns ==
    /\ pc = "metrics"
    /\ metrics' = detect_patterns(filtered.table)
    /\ pc' = "detect_patterns"
    /\ UNCHANGED <<parseInputs, df, source, warnings, filter_cfg, filtered, refiltered>>

SpecMetrics ==
    InitMetrics
    /\ [][\/ GetTopMeetingsByTime
          \/ GetTopOrganizers
          \/ GetWeekdayDistribution
          \/ CalculateKpis
          \/ EstimateRecurringTimeOfFiltered
          \/ GetLongMeetings
          \/ GetDailyLoad
          \/ DetectPatterns]_vars

----------------------------------------------------------------------------
(* The recurring-time estimate of the table parse_calendar_file returns    *)
(* for an uploaded CSV file                                                *)

InitPipeline ==
    /\ pc = "start"
    /\ file_content \in {c \in FileContents : c.kind = "csv" /\ c.utf8}
    /\ filename = <<"cal", ".csv">>
    /\ source_override \in Overrides
    /\ icalendar_installed = TRUE
    /\ df = EmptyFrame
    /\ source = ""
    /\ warnings = <<>>
    /\ filter_cfg = NoFilters
    /\ filtered = NotCalled
    /\ refiltered = NotCalled
    /\ metrics = NotCalled

EstimateRecurringTime ==
    /\ pc = "done"
    /\ metrics' = [recurring_minutes |-> estimate_recurring_time(df)]
    /\ pc' = "estimate_recurring_time"
    /\ UNCHANGED <<parseInputs, df, source, warnings, filter_cfg, filtered, refiltered>>

NextPipeline ==
    \/ ReadCsv
    \/ NormalizeCsv
    \/ DropInvalidDates
    \/ CalculateDerivedFields
    \/ DropInvalidDurations
    \/ EstimateRecurringTime

SpecPipeline == InitPipeline /\ [][NextPipeline]_vars

----------------------------------------------------------------------------
(* Properties of parse_calendar_file (specification Spec).  The function   *)
(* has returned (df, source, warnings) when pc = "done".                   *)

HasWarning(kind) == \E i \in 1..Len(warnings) : warnings[i].kind = kind

FileType == detect_file_type(file_content, filename)

\* C1: every row of the returned table has end_datetime >= start_datetime and
\* a duration_minutes equal to end - start in minutes, hence >= 0.
C1_DurationIsEndMinusStart ==
    pc = "done" =>
        \A i \in 1..Len(df.rows) :
            /\ df.rows[i].end_datetime >= df.rows[i].start_datetime
            /\ df.rows[i].duration_minutes
                   = df.rows[i].end_datetime - df.rows[i].start_datetime
            /\ df.rows[i].duration_minutes >= 0

\* a table is returned that kept a row of positive duration while rows of
\* negative duration were dropped
C1_Witness ==
    /\ pc = "done"
    /\ HasWarning("Dropped rows with invalid duration")
    /\ \E i \in 1..Len(df.rows) : df.rows[i].duration_minutes > 0

\* C2: every row of the returned table has a start_datetime and an
\* end_datetime; records with a missing or unparsable date are not in it.
C2_DatesPresent ==
    pc = "done" =>
        \A i \in 1..Len(df.rows) :
            df.rows[i].start_datetime # NaT /\ df.rows[i].end_datetime # NaT

\* a CSV table is returned with a row kept and a row dropped for its dates
C2_Witness ==
    /\ pc = "done"
    /\ FileType = "csv"
    /\ Len(df.rows) > 0
    /\ HasWarning("Dropped rows with invalid dates")

IsBlankText(t) == Strip(t) = <<>>

\* C3: the subject of every row of the returned table is a non-blank text.
C3_SubjectNeverBlank ==
    pc = "done" =>
        \A i \in 1..Len(df.rows) :
            df.rows[i].subject.kind = "str" /\ ~IsBlankText(df.rows[i].subject.s)

\* C8: an empty byte buffer taken as CSV returns an empty table, the source
\* 'unknown' and a warning that says the file is empty.
C8_EmptyBufferWarning ==
    (pc = "done" /\ file_content.kind = "empty" /\ FileType = "csv") =>
        /\ IsEmpty(df)
        /\ source = "unknown"
        /\ HasWarning("CSV file is empty")

\* the calendar was parsed and no VEVENT gave an event
NoEventExtracted ==
    /\ FileType = "ics"
    /\ icalendar_installed
    /\ file_content.kind = "ics"
    /\ ExtractEvents(file_content.events) = <<>>

\* C9: an ICS file from which no event is extracted returns an empty table,
\* the source 'ics' and the 'no events found' warning, and no drop count.
C9_NoEventsFound ==
    (pc = "done" /\ NoEventExtracted) =>
        /\ IsEmpty(df)
        /\ source = "ics"
        /\ HasWarning("No events found in ICS file")
        /\ ~HasWarning("Dropped rows with invalid dates")
        /\ ~HasWarning("Dropped rows with invalid duration")

\* the file has VEVENTs and every one of them was skipped
C9_Witness ==
    /\ pc = "done"
    /\ NoEventExtracted
    /\ Len(file_content.events) > 0

EndsBeforeStart(row) == row.end_datetime < row.start_datetime

IsDurationWarning(w) == w.kind = "Dropped rows with invalid duration"

\* C10: the step that removes invalid durations removes exactly the rows
\* whose end is before their start, keeps every other row as it is, and, when
\* it removed n > 0 rows, adds the one warning that reports n.
C10_NegativeRowsDropped ==
    [][pc = "derived" =>
        LET n == Len(SelectSeq(df.rows, EndsBeforeStart))
        IN  /\ pc' = "done"
            /\ df'.rows = SelectSeq(df.rows, LAMBDA r : ~EndsBeforeStart(r))
            /\ n > 0 =>
                   /\ Len(SelectSeq(warnings', IsDurationWarning)) = 1
                   /\ warnings'
                        = Append(warnings, WCount("Dropped rows with invalid duration", n))
            /\ n = 0 => warnings' = warnings]_vars

\* a table is returned from which every row but one was dropped for its
\* negative duration
C10_Witness ==
    /\ pc = "done"
    /\ Len(df.rows) = 1
    /\ \E i \in 1..Len(warnings) :
           warnings[i] = WCount("Dropped rows with invalid duration", MaxRows - 1)

----------------------------------------------------------------------------
(* Properties of apply_filters (specification SpecFilter)                  *)

\* C4: apply_filters applied again, with the same configuration, to the table
\* it returned gives that same table, row for row and in the same order.
C4_FilterIdempotent ==
    pc = "refiltered" => refiltered = filtered

\* the second call was made on a table from which the first call removed a
\* row by keyword and kept another
C4_Witness ==
    /\ pc = "refiltered"
    /\ CleanKeywords(filter_cfg.exclude_keywords) # <<>>
    /\ Len(filtered.table.rows) > 0
    /\ Len(filtered.table.rows) < Len(df.rows)

----------------------------------------------------------------------------
(* Properties of detect_csv_source (specification SpecDetect)              *)

\* the header has a column whose trimmed name is in the signature
HasSignature(columns, signature) ==
    \E i \in 1..Len(columns) : \E k \in 1..Len(signature) : Strip(columns[i]) = signature[k]

\* C5: a header with an Outlook signature column and no Google signature
\* column is detected as 'outlook', one with a Google signature column and no
\* Outlook signature column as 'google', names being compared after trimming.
C5_SignatureDetected ==
    pc = "detected" =>
        /\ (HasSignature(df.columns, OUTLOOK_SIGNATURE)
                /\ ~HasSignature(df.columns, GOOGLE_SIGNATURE)) => source = "outlook"
        /\ (HasSignature(df.columns, GOOGLE_SIGNATURE)
                /\ ~HasSignature(df.columns, OUTLOOK_SIGNATURE)) => source = "google"

\* 'outlook' was detected from a header whose only signature column is padded
\* with whitespace
C5_Witness ==
    /\ pc = "detected"
    /\ source = "outlook"
    /\ ~HasSignature(df.columns, GOOGLE_SIGNATURE)
    /\ \A i \in 1..Len(df.columns) : ~InSeq(df.columns[i], OUTLOOK_SIGNATURE)

----------------------------------------------------------------------------
(* Properties of the metrics (specification SpecMetrics).  Hours are       *)
(* compared in seconds: a tenth of an hour is TenthHour seconds.           *)

TenthHour == 6 * SecPerMin

RECURSIVE SumField(_, _)
SumField(rows, f) == IF rows = <<>> THEN 0 ELSE Head(rows)[f] + SumField(Tail(rows), f)

Abs(x) == IF x < 0 THEN -x ELSE x

\* the sum of total_hours over the rows of the result is total_minutes / 60
\* within 0.1 per row of the result
SumWithinTolerance(result, total_minutes) ==
    Abs(SumField(result.rows, "total_hours") * TenthHour - total_minutes)
        <= TenthHour * Len(result.rows)

\* C6: for a non-empty filtered table the total_hours of the weekday
\* distribution add up to the duration of the table within 0.1 per group, and
\* the meeting counts add up to the number of rows of the table.
C6_WeekdaySumAndCount ==
    (pc = "get_weekday_distribution" /\ Len(filtered.table.rows) > 0) =>
        /\ SumWithinTolerance(metrics, SumDuration(filtered.table.rows))
        /\ SumField(metrics.rows, "meeting_count") = Len(filtered.table.rows)

\* C7 as claimed: the total_hours of the rows of get_top_meetings_by_time,
\* and of get_top_organizers, add up to the duration of the whole filtered
\* table within 0.1 per returned group.
C7_TopSumsCoverTable ==
    pc \in {"get_top_meetings_by_time", "get_top_organizers"} =>
        SumWithinTolerance(metrics, SumDuration(filtered.table.rows))

\* the rows of the table whose subject / organizer is one of the returned groups
RowsOfReturnedSubjects ==
    SelectSeq(filtered.table.rows,
              LAMBDA r : r.subject.kind = "str"
                         /\ \E k \in 1..Len(metrics.rows) : metrics.rows[k].subject = r.subject.s)

RowsOfReturnedOrganizers ==
    SelectSeq(filtered.table.rows,
              LAMBDA r : \E k \in 1..Len(metrics.rows) : metrics.rows[k].organizer = r.organizer)

\* C7 amended: the total_hours of the returned rows add up, within 0.1 per
\* returned group, to the duration of the rows of the table that belong to
\* the returned groups.
C7_TopSumsCoverReturnedGroups ==
    /\ pc = "get_top_meetings_by_time" =>
           SumWithinTolerance(metrics, SumDuration(RowsOfReturnedSubjects))
    /\ pc = "get_top_organizers" =>
           SumWithinTolerance(metrics, SumDuration(RowsOfReturnedOrganizers))

\* organizers were returned for a table that also has a row without organizer
C7_Witness ==
    /\ pc = "get_top_organizers"
    /\ Len(metrics.rows) > 0
    /\ \E i \in 1..Len(filtered.table.rows) : ~HasOrganizer(filtered.table.rows[i])

----------------------------------------------------------------------------
(* Properties of parse_calendar_file, continued *)

\* C11: parse_calendar_file never raises: every run ends by returning the
\* triple (table, source, warnings), whatever the bytes, the file name and
\* the source override.
C11_NeverRaises == pc # "raised"

----------------------------------------------------------------------------
(* Properties of the scenarios (specification SpecPipeline)                *)

\* the CSV has the five Outlook columns the scenario fills
HasScenarioColumns ==
    \A c \in {Col("Subject"), Col("Start Date"), Col("Start Time"), Col("End Date"),
              Col("End Time")} : InSeq(c, StripColumns(file_content.header))

IsWeeklySyncCanonical(row) ==
    /\ row.subject = Str(TWeeklySync)
    /\ row.start_datetime = MkDatetime(2024, 1, 15, 9, 0, 0)
    /\ row.end_datetime = MkDatetime(2024, 1, 15, 10, 0, 0)
    /\ row.duration_minutes = 60 * SecPerMin
    /\ row.weekday = "Monday"

\* C12: the Outlook CSV row "Weekly Sync", 01/15/2024 09:00 AM to 10:00 AM,
\* yields one canonical row with duration_minutes = 60 and weekday = "Monday";
\* when it is the only row of the file, estimate_recurring_time counts its 60
\* minutes although the subject occurs once.
C12_WeeklySyncScenario ==
    (/\ pc \in {"done", "estimate_recurring_time"}
     /\ source = "outlook"
     /\ HasScenarioColumns) =>
        /\ Len(SelectSeq(df.rows, IsWeeklySyncCanonical))
               = Len(SelectSeq(file_content.rows, LAMBDA r : r = WeeklySyncRow))
        /\ (pc = "estimate_recurring_time" /\ file_content.rows = <<WeeklySyncRow>>) =>
               /\ Len(df.rows) = 1
               /\ metrics.recurring_minutes = 60 * SecPerMin

C12_Witness ==
    /\ pc = "estimate_recurring_time"
    /\ source = "outlook"
    /\ HasScenarioColumns
    /\ file_content.rows = <<WeeklySyncRow>>
    /\ metrics.recurring_minutes = 60 * SecPerMin

----------------------------------------------------------------------------
(* Properties of the metrics, continued (specification SpecMetrics)        *)

\* the table is two rows of subject "Status Update", of 30 and 45 minutes
IsStatusUpdateTable ==
    /\ Len(filtered.table.rows) = 2
    /\ \A i \in 1..2 : filtered.table.rows[i].subject = Str(TStatusUpdate)
    /\ {filtered.table.rows[i].duration_minutes : i \in 1..2} = {30 * SecPerMin, 45 * SecPerMin}

\* C13: for a table of exactly two rows "Status Update" of 30 and 45 minutes
\* get_top_meetings_by_time returns a single row with occurrences = 2,
\* total_hours = 1.3 and avg_duration = 38.
C13_StatusUpdateScenario ==
    (pc = "get_top_meetings_by_time" /\ IsStatusUpdateTable) =>
        /\ Len(metrics.rows) = 1
        /\ metrics.rows[1].subject = TStatusUpdate
        /\ metrics.rows[1].occurrences = 2
        /\ metrics.rows[1].total_hours = 13
        /\ metrics.rows[1].avg_duration = 38

----------------------------------------------------------------------------
(* Properties of apply_filters, continued (specification SpecFilter)       *)

\* only the minimum-duration filter is set
OnlyMinDuration ==
    /\ pc \in {"filtered", "refiltered"}
    /\ ~filter_cfg.exclude_all_day
    /\ filter_cfg.exclude_keywords = <<>>
    /\ ~filtered.raised

\* the number of rows of s equal to row
Occurrences(s, row) == Cardinality({i \in 1..Len(s) : s[i] = row})

\* C14: with exclude_all_day off and no keywords, apply_filters(T, min_duration
\* = m) keeps exactly the rows of T with duration_minutes >= m and drops
\* exactly those with duration_minutes < m; a row as long as m is kept.
C14_MinDurationKeepsExactly ==
    OnlyMinDuration =>
        /\ \A i \in 1..Len(df.rows) :
               LET row == df.rows[i]
               IN  IF row.duration_minutes >= filter_cfg.min_duration * SecPerMin
                   THEN Occurrences(filtered.table.rows, row) = Occurrences(df.rows, row)
                   ELSE Occurrences(filtered.table.rows, row) = 0
        /\ Len(filtered.table.rows)
               = Cardinality({i \in 1..Len(df.rows) :
                                df.rows[i].duration_minutes >= filter_cfg.min_duration * SecPerMin})

\* a row exactly as long as the minimum was kept and a shorter row dropped
C14_Witness ==
    /\ OnlyMinDuration
    /\ filter_cfg.min_duration = 30
    /\ Len(filtered.table.rows) = 1
    /\ filtered.table.rows[1].duration_minutes = 30 * SecPerMin
    /\ \E i \in 1..Len(df.rows) : df.rows[i].duration_minutes < 30 * SecPerMin

----------------------------------------------------------------------------
(* Properties of detect_file_type (specification SpecFileType)             *)

\* the first 500 bytes, decoded ignoring undecodable bytes
DecodedWindow == DecodeIgnore(TakeBytes(file_content.bytes, ContentWindow))

HasExtension(ext) == EndsWith(Lower(filename), <<ext>>)

\* C15: a filename ending in .ics gives 'ics' and one ending in .csv gives
\* 'csv' regardless of the content; with neither extension the result is
\* 'ics' when the first 500 bytes, decoded ignoring undecodable bytes, begin
\* with BEGIN:VCALENDAR, and 'csv' in every other case.
C15_DetectionOrder ==
    pc = "file_type_detected" =>
        source = IF HasExtension(".ics") THEN "ics"
                 ELSE IF HasExtension(".csv") THEN "csv"
                 ELSE IF StartsWith(DecodedWindow, <<"BEGIN:VCALENDAR">>) THEN "ics"
                 ELSE "csv"

\* BEGIN:VCALENDAR is the first thing of the decoded window that is not
\* white space
CalendarAfterWhitespace ==
    \E k \in 1..Len(DecodedWindow) :
        /\ DecodedWindow[k] = "BEGIN:VCALENDAR"
        /\ \A j \in 1..(k - 1) : IsSpace(DecodedWindow[j])

\* C15 amended: the extension decides first; with neither extension the
\* result is 'ics' exactly when the decoded window, after its leading white
\* space, begins with BEGIN:VCALENDAR.
C15_DetectionOrderAfterTrim ==
    pc = "file_type_detected" =>
        /\ source \in {"ics", "csv"}
        /\ HasExtension(".ics") => source = "ics"
        /\ HasExtension(".csv") => source = "csv"
        /\ (~HasExtension(".ics") /\ ~HasExtension(".csv")) =>
               (source = "ics" <=> CalendarAfterWhitespace)

\* a buffer with white space before BEGIN:VCALENDAR and no extension
C15_Witness ==
    /\ pc = "file_type_detected"
    /\ ~HasExtension(".ics") /\ ~HasExtension(".csv")
    /\ CalendarAfterWhitespace
    /\ ~StartsWith(DecodedWindow, <<"BEGIN:VCALENDAR">>)
    /\ source = "ics"

----------------------------------------------------------------------------
(* Properties of parse_datetime_str (specification SpecParseDatetime)      *)

IsAbsentCell(c) == c.kind \in {"NaN", "empty", "blank"}

MatchesSomeDateFormat(c) ==
    \E i \in 1..Len(date_formats) : StrptimeDate(c, date_formats[i]) # <<>>

\* the time string matches one of the four time patterns
MatchesSomeTimeFormat(c) ==
    \E j \in 1..Len(time_formats) :
        time_formats[j] # "" /\ StrptimeTime(c, time_formats[j]) # <<>>

\* C16: parse_datetime_str returns absent when date_str is null or blank;
\* it returns a timestamp only when the date matches a date pattern and the
\* time, when there is one, matches a time pattern; in particular it returns
\* absent when the date matches but the non-empty time string matches none of
\* the four time patterns.
C16_AbsentUnlessFullMatch ==
    pc = "datetime_parsed" =>
        LET d == file_content.date_str
            t == file_content.time_str
        IN  /\ IsAbsentCell(d) => metrics.value = NaT
            /\ metrics.value # NaT =>
                   /\ MatchesSomeDateFormat(d)
                   /\ ~IsAbsentCell(t) => MatchesSomeTimeFormat(t)
            /\ (MatchesSomeDateFormat(d) /\ ~IsAbsentCell(t) /\ ~MatchesSomeTimeFormat(t)) =>
                   metrics.value = NaT

\* C17: apply_filters never raises, whatever the canonical table and the
\* filter configuration, keywords with characters special in regular
\* expressions included; a keyword list that is empty or holds only blank
\* keywords leaves the keyword step a no-op.
C17_FiltersNeverRaise ==
    pc \in {"filtered", "refiltered"} =>
        /\ ~filtered.raised
        /\ CleanKeywords(filter_cfg.exclude_keywords) = <<>> =>
               filtered.table.rows
                   = FilterMinDuration(FilterAllDay(df, filter_cfg.exclude_all_day),
                                       filter_cfg.min_duration).rows

\* the rows of result are rows of input, unchanged and in the input's order
IsSubsequence(result, input) ==
    \E f \in [1..Len(result) -> 1..Len(input)] :
        /\ \A k \in 1..Len(result) : result[k] = input[f[k]]
        /\ \A k \in 1..(Len(result) - 1) : f[k] < f[k + 1]

\* C18: apply_filters only removes rows: every row of the result is a row of
\* the input with all fields unchanged, the surviving rows keep their input
\* order, the result index is 0..n-1, and the table passed in is not changed.
C18_OnlyRemovesRows ==
    /\ [](pc \in {"filtered", "refiltered"} /\ ~filtered.raised =>
             /\ IsSubsequence(filtered.table.rows, df.rows)
             /\ filtered.table.columns = df.columns
             /\ filtered.table.index = [i \in 1..Len(filtered.table.rows) |-> i - 1])
    /\ [][df' = df /\ (pc = "filtered" => filtered' = filtered)]_vars

\* the first row was removed and a later one kept: the survivor's label was
\* not 0 before the call
C18_Witness ==
    /\ pc = "filtered"
    /\ ~filtered.raised
    /\ Len(filtered.table.rows) > 0
    /\ Len(filtered.table.rows) < Len(df.rows)
    /\ filtered.table.rows[1] # df.rows[1]
    /\ IndexOf(df)[1] # 0

\* C19: given an empty table, with or without columns, every function of the
\* metrics returns its empty or all-zero result and does not raise;
\* calculate_kpis returns total_hours = total_meetings = avg_duration =
\* recurring_pct = 0.
C19_EmptyTableResults ==
    IsEmpty(filtered.table) =>
        /\ pc = "calculate_kpis" => metrics = ZeroKpis
        /\ pc = "estimate_recurring_time" => metrics = [recurring_minutes |-> 0]
        /\ pc = "get_top_meetings_by_time" =>
               metrics = [columns |-> TopMeetingsColumns, rows |-> <<>>]
        /\ pc = "get_top_organizers" =>
               metrics = [columns |-> TopOrganizersColumns, rows |-> <<>>]
        /\ pc = "get_long_meetings" =>
               metrics = [columns |-> LongMeetingsColumns, rows |-> <<>>]
        /\ pc = "get_weekday_distribution" =>
               metrics = [columns |-> WeekdayColumns, rows |-> <<>>]
        /\ pc = "get_daily_load" => metrics = [columns |-> DailyLoadColumns, rows |-> <<>>]
        /\ pc = "detect_patterns" => metrics = NoPatterns

\* calculate_kpis has returned for the table without columns
C19_Witness ==
    /\ pc = "calculate_kpis"
    /\ Len(filtered.table.columns) = 0
    /\ metrics = ZeroKpis

\* word occurs in text as a run of consecutive characters
IsSubstring(word, text) ==
    \E i \in 0..(Len(text) - Len(word)) : SubSeq(text, i + 1, i + Len(word)) = word

\* the lower-cased trimmed subject of the row occurs at least twice in the table
SubjectRepeats(rows, row) ==
    Cardinality({i \in 1..Len(rows) :
                    /\ rows[i].subject.kind = "str"
                    /\ Strip(Lower(rows[i].subject.s)) = Strip(Lower(row.subject.s))}) >= 2

SubjectHasKeyword(row) ==
    \E k \in 1..Len(recurring_keywords) :
        IsSubstring(recurring_keywords[k], Lower(row.subject.s))

\* C20: estimate_recurring_time returns the sum of duration_minutes over
\* exactly the rows whose lower-cased trimmed subject occurs at least twice in
\* the table or whose subject contains a keyword of the fixed list, each such
\* row counted once.
C20_RecurringEstimate ==
    pc = "estimate_recurring_time" =>
        metrics.recurring_minutes
            = SumDuration(SelectSeq(filtered.table.rows,
                  LAMBDA r : /\ r.subject.kind = "str"
                             /\ \/ SubjectRepeats(filtered.table.rows, r)
                                \/ SubjectHasKeyword(r)))

\* two rows that both repeat a subject and hold a keyword, each counted once
C20_Witness ==
    /\ pc = "estimate_recurring_time"
    /\ Len(filtered.table.rows) = 2
    /\ \A i \in 1..2 :
          /\ filtered.table.rows[i].subject.kind = "str"
          /\ SubjectRepeats(filtered.table.rows, filtered.table.rows[i])
          /\ SubjectHasKeyword(filtered.table.rows[i])
    /\ filtered.table.rows[1] # filtered.table.rows[2]
    /\ metrics.recurring_minutes = SumDuration(filtered.table.rows)

\* the rows estimate_recurring_time is to count
RecurringRows(rows) ==
    SelectSeq(rows, LAMBDA r : /\ r.subject.kind = "str"
                               /\ \/ SubjectRepeats(rows, r)
                                  \/ SubjectHasKeyword(r))

\* C21: calculate_kpis returns recurring_pct = recurring minutes / total
\* minutes * 100 rounded to one decimal, 0 when the total is 0, always between
\* 0 and 100; total_meetings is the number of rows.
C21_RecurringPct ==
    (pc = "calculate_kpis" /\ ~IsEmpty(filtered.table)) =>
        LET rows == filtered.table.rows
            total == SumDuration(rows)
        IN  /\ metrics.total_meetings = Len(rows)
            /\ metrics.recurring_pct
                   = IF total = 0 THEN 0
                     ELSE RoundHalfEven(1000 * SumDuration(RecurringRows(rows)), total)
            /\ metrics.recurring_pct >= 0
            /\ metrics.recurring_pct <= 1000

\* part of the time, not all of it, is recurring
C21_Witness ==
    /\ pc = "calculate_kpis"
    /\ ~IsEmpty(filtered.table)
    /\ metrics.recurring_pct > 0
    /\ metrics.recurring_pct < 1000

\* the row of the result that get_long_meetings makes of a row of the table
LongMeetingOf(row) ==
    [subject |-> row.subject, duration_minutes |-> row.duration_minutes \div SecPerMin,
     date |-> row.date, organizer |-> row.organizer]

\* C22: get_long_meetings returns only rows with duration_minutes strictly
\* greater than the threshold, sorted by duration descending, at most 20 of
\* them, and the longest ones when more than 20 qualify.
C22_LongMeetings ==
    (pc = "get_long_meetings" /\ ~IsEmpty(filtered.table)) =>
        LET rows == filtered.table.rows
            res == metrics.rows
            Q == {i \in 1..Len(rows) : rows[i].duration_minutes > DefaultThreshold * SecPerMin}
            same(i) == {j \in Q : LongMeetingOf(rows[j]) = LongMeetingOf(rows[i])}
        IN  /\ Len(res) = IF Cardinality(Q) < 20 THEN Cardinality(Q) ELSE 20
            /\ \A k \in 1..Len(res) : \E i \in Q : res[k] = LongMeetingOf(rows[i])
            /\ \A k \in 1..(Len(res) - 1) : res[k].duration_minutes >= res[k + 1].duration_minutes
            /\ \A i \in Q :
                  /\ Occurrences(res, LongMeetingOf(rows[i])) <= Cardinality(same(i))
                  /\ Occurrences(res, LongMeetingOf(rows[i])) < Cardinality(same(i)) =>
                         \A k \in 1..Len(res) :
                             rows[i].duration_minutes \div SecPerMin <= res[k].duration_minutes

\* more than 20 rows qualify and 20 are returned
C22_Witness ==
    /\ pc = "get_long_meetings"
    /\ Len(metrics.rows) = 20
    /\ Cardinality({i \in 1..Len(filtered.table.rows) :
                       filtered.table.rows[i].duration_minutes > DefaultThreshold * SecPerMin}) > 20

----------------------------------------------------------------------------
(* Properties of parse_calendar_file, continued (specification Spec)       *)

\* the file went down the CSV branch and read as a table with rows
ReadAsCsv ==
    /\ FileType = "csv"
    /\ read_csv(file_content) # <<>>
    /\ ~IsEmpty(read_csv(file_content)[1])

\* the table read, its column names stripped
CsvTable == [read_csv(file_content)[1] EXCEPT !.columns = StripColumns(@)]

AfterNormalization == pc \in {"normalized", "dates_checked", "derived", "done"}

\* C23: for a CSV that reads as a non-empty table and an override 'outlook' or
\* 'google', the source tag is the override, the matching normalizer is used,
\* and the mismatch warning is there if and only if the override differs from
\* the detected source; for an ICS input the tag is 'ics' whatever the
\* override.
C23_OverrideWins ==
    /\ (ReadAsCsv /\ AfterNormalization /\ source_override # "none") =>
           /\ source = source_override
           /\ HasWarning("Using manual override")
                  <=> source_override # detect_csv_source(CsvTable.columns)
           /\ pc = "normalized" =>
                  df = IF source_override = "outlook" THEN normalize_outlook(CsvTable)
                       ELSE normalize_google_csv(CsvTable)
    /\ (FileType = "ics" /\ (AfterNormalization \/ pc = "raised")) => source = "ics"

\* an override that differs from the detected source was used and rows
\* were returned
C23_Witness ==
    /\ pc = "done"
    /\ ReadAsCsv
    /\ source_override = "outlook"
    /\ detect_csv_source(CsvTable.columns) = "google"
    /\ source = "outlook"
    /\ HasWarning("Using manual override")
    /\ Len(df.rows) > 0

----------------------------------------------------------------------------
(* Properties of detect_csv_source, continued (specification SpecDetect)   *)

\* the header's names after trimming, as a set
TrimmedNames == {Strip(df.columns[i]) : i \in 1..Len(df.columns)}

OutlookCount ==
    Cardinality({Col("Organizer"), Col("Required Attendees"), Col("Meeting Organizer")}
                    \cap TrimmedNames)

GoogleCount == Cardinality({Col("Description"), Col("Private")} \cap TrimmedNames)

----------------------------------------------------------------------------
(* Properties of parse_datetime_str, continued (specification              *)
(* SpecParseDatetime)                                                      *)

\* midnight of the day a timestamp falls on
DayOf(ts) == ts - (ts % SecPerDay)

\* the year a date cell's third field stands for
YearOfThird(d) == IF d.lc = 2 THEN TwoDigitYear(d.c) ELSE d.c

\* a date cell "a/b/c" whose first field is a day or month, not a year
IsSlashDate(d) == d.kind = "date" /\ d.sep = "/" /\ d.la <= 2

\* C25: MM/DD/YYYY is tried before DD/MM/YYYY and the first match is
\* returned: a slash-separated date whose first two fields are both <= 12 is
\* read month-first whatever the time string, and the day-first reading is
\* used only when the first field exceeds 12.
C25_MonthFirst ==
    (pc = "datetime_parsed" /\ IsSlashDate(file_content.date_str)) =>
        LET d == file_content.date_str
            v == metrics.value
            month_first == MkDatetime(YearOfThird(d), d.a, d.b, 0, 0, 0)
            day_first == MkDatetime(YearOfThird(d), d.b, d.a, 0, 0, 0)
        IN  /\ (d.a \in 1..12 /\ d.b \in 1..12) => (v # NaT /\ DayOf(v) = month_first)
            /\ (d.a <= 12 /\ d.b <= 12 /\ v # NaT) => DayOf(v) = month_first
            /\ (v # NaT /\ d.a # d.b /\ DayOf(v) = day_first) => d.a > 12

\* "3/4/2024" with an accepted time is read as the 4th of March
C25_Witness ==
    /\ pc = "datetime_parsed"
    /\ file_content.date_str = DateCell("/", 3, 4, 2024, 1, 4)
    /\ file_content.time_str = TimeCell(13, 0, -1, "")
    /\ metrics.value = MkDatetime(2024, 3, 4, 13, 0, 0)

----------------------------------------------------------------------------
(* Properties of apply_filters, continued (specification SpecFilter)       *)

\* the lower-cased subject of a row contains one of the cleaned keywords
\* as a literal substring
HasLiteralKeyword(row, keywords) ==
    /\ row.subject.kind # "NaN"
    /\ \E k \in 1..Len(keywords) : IsSubstring(keywords[k], Lower(row.subject.s))

\* C26: with a non-empty keyword list a row is dropped if and only if its
\* lower-cased subject contains, as a literal substring, one of the keywords
\* trimmed and lower-cased, empty keywords ignored; the other rows are kept.
C26_LiteralKeywords ==
    (pc = "filtered" /\ ~filtered.raised /\ filter_cfg.exclude_keywords # <<>>) =>
        LET keywords == CleanKeywords(filter_cfg.exclude_keywords)
            before == FilterMinDuration(FilterAllDay(df, filter_cfg.exclude_all_day),
                                        filter_cfg.min_duration).rows
        IN  filtered.table.rows
                = SelectSeq(before, LAMBDA row : ~HasLiteralKeyword(row, keywords))

----------------------------------------------------------------------------
(* Properties of detect_patterns (specification SpecMetrics)               *)

\* the positions of the rows whose duration in minutes is in lo < d <= hi
\* (hi = -1: no upper end)
Bucket(rows, lo, hi) ==
    {i \in 1..Len(rows) :
        /\ rows[i].duration_minutes > lo * SecPerMin
        /\ hi >= 0 => rows[i].duration_minutes <= hi * SecPerMin}

\* C27: on a non-empty table every row falls in exactly one of three
\* buckets: short is duration <= 30, medium is 30 < duration <= 60, long is
\* duration > 60, so the three counts add up to the row count, and
\* long_meeting_hours is the summed duration of the long rows / 60 rounded
\* to one decimal.
C27_DurationBuckets ==
    (pc = "detect_patterns" /\ ~IsEmpty(filtered.table)) =>
        LET rows == filtered.table.rows
            short == {i \in 1..Len(rows) : rows[i].duration_minutes <= 30 * SecPerMin}
            medium == Bucket(rows, 30, 60)
            long == Bucket(rows, 60, -1)
            long_seconds == SumSeq([k \in 1..Cardinality(long) |->
                                       rows[Ascending(long)[k]].duration_minutes])
        IN  /\ metrics.short_meetings = Cardinality(short)
            /\ metrics.medium_meetings = Cardinality(medium)
            /\ metrics.long_meetings = Cardinality(long)
            /\ metrics.short_meetings + metrics.medium_meetings + metrics.long_meetings
                   = Len(rows)
            /\ metrics.long_meeting_hours = RoundHalfEven(long_seconds, 6 * SecPerMin)

\* a meeting of exactly 30 minutes counted short, next to one of exactly 60
\* minutes counted medium
C27_Witness ==
    /\ pc = "detect_patterns"
    /\ Len(filtered.table.rows) = 2
    /\ filtered.table.rows[1].duration_minutes = 30 * SecPerMin
    /\ filtered.table.rows[2].duration_minutes = 60 * SecPerMin
    /\ metrics.short_meetings = 1
    /\ metrics.medium_meetings = 1
    /\ metrics.long_meetings = 0
    /\ metrics.long_meeting_hours = 0

----------------------------------------------------------------------------
(* Row conservation in parse_calendar_file (specification Spec)            *)

\* the run got as far as the removal of rows without dates: the ICS file
\* gave events, or the CSV read as a table with rows
ReachedDropNa ==
    IF FileType = "ics"
    THEN ~IsEmpty(parse_ics_file(file_content, icalendar_installed)[1])
    ELSE ReadAsCsv

\* the rows normalization produced
NormalizedRows ==
    IF FileType = "ics" THEN parse_ics_file(file_content, icalendar_installed)[1].rows
    ELSE LET src == IF source_override # "none" THEN source_override
                    ELSE detect_csv_source(CsvTable.columns)
         IN  IF src = "outlook" THEN normalize_outlook(CsvTable).rows
             ELSE normalize_google_csv(CsvTable).rows

MissingDate(row) == row.start_datetime = NaT \/ row.end_datetime = NaT

\* positions of the warnings of one kind
WarningsAt(kind) == {i \in 1..Len(warnings) : warnings[i].kind = kind}

\* C28: with N rows out of normalization, N = rows returned + D1 + D2, where
\* D1 counts the rows missing start or end and D2 the rows of negative
\* duration; the 'invalid dates' warning is there iff D1 > 0 and states D1,
\* the 'invalid duration' warning is there iff D2 > 0 and states D2, the first
\* precedes the second, and no row is counted in both.
C28_RowConservation ==
    /\ (pc = "normalized" /\ ReachedDropNa) => df.rows = NormalizedRows
    /\ (pc = "done" /\ ReachedDropNa) =>
           LET N == Len(NormalizedRows)
               d1 == {i \in 1..N : MissingDate(NormalizedRows[i])}
               d2 == {i \in 1..N : /\ ~MissingDate(NormalizedRows[i])
                                   /\ EndsBeforeStart(NormalizedRows[i])}
               dates == WarningsAt("Dropped rows with invalid dates")
               durations == WarningsAt("Dropped rows with invalid duration")
           IN  /\ N = Len(df.rows) + Cardinality(d1) + Cardinality(d2)
               /\ d1 \cap d2 = {}
               /\ Cardinality(dates) = IF d1 = {} THEN 0 ELSE 1
               /\ \A i \in dates : warnings[i].n = Cardinality(d1)
               /\ Cardinality(durations) = IF d2 = {} THEN 0 ELSE 1
               /\ \A i \in durations : warnings[i].n = Cardinality(d2)
               /\ \A i \in dates : \A j \in durations : i < j

\* a run returns after one row was dropped for its dates and the other for
\* its negative duration
C28_Witness ==
    /\ pc = "done"
    /\ ReachedDropNa
    /\ Len(NormalizedRows) = MaxRows
    /\ Len(df.rows) = MaxRows - 2
    /\ HasWarning("Dropped rows with invalid dates")
    /\ HasWarning("Dropped rows with invalid duration")


\* the run is over: the triple was returned, or an exception left the function
Terminated == pc \in {"done", "raised"}

C29_ReturnedEmptyHasWarning ==
    (pc = "done" /\ IsEmpty(df)) => Len(warnings) > 0


\* a CSV with rows, no override, and a header detect_csv_source cannot place
UndetectedCsv ==
    /\ ReadAsCsv
    /\ source_override = "none"
    /\ detect_csv_source(CsvTable.columns) = "unknown"

\* C30: a non-empty CSV detected as 'unknown', without override, goes
\* through the Google normalizer and gets the tag 'google' and the 'could not
\* detect' warning; so the tag 'unknown' is returned only with an empty table
\* (the CSV could not be read or was empty).
C30_UnknownBecomesGoogle ==
    /\ (UndetectedCsv /\ AfterNormalization) =>
           /\ source = "google"
           /\ HasWarning("Could not detect calendar source")
           /\ pc = "normalized" => df = normalize_google_csv(CsvTable)
    /\ (pc = "done" /\ source = "unknown") => (IsEmpty(df) /\ ~ReadAsCsv)

\* rows are returned from a CSV whose source was not detected
C30_Witness ==
    /\ pc = "done"
    /\ UndetectedCsv
    /\ Len(df.rows) > 0
    /\ source = "google"
    /\ HasWarning("Could not detect calendar source")

====
